---- MODULE Spec2Model ----
(***************************************************************************)
(* A model of nbhttp: the HTTP message parser (common.py), the HTTP        *)
(* server connection with its pipelining queue (server.py), the HTTP       *)
(* client with its idle connection pool (client.py) and the parts of the   *)
(* push TCP layer (push_tcp.py) those rest on.                             *)
(*                                                                         *)
(* Byte strings are sequences of one-character strings.  A Python call    *)
(* chain is one operator application on a "world" record w that holds     *)
(* every object the chain can touch:                                      *)
(*    w.role  which subclass of HttpMessageParser owns the parser          *)
(*    w.p     the HttpMessageParser fields of the object being driven      *)
(*    w.h     the recording subclass used to study the parser alone        *)
(*    w.s     the HttpServerConnection, its requests and its TCP side      *)
(*    w.c     the clients, the TCP connections and the idle pool           *)
(* The variable net holds TCP connections studied without HTTP above them. *)
(*    w.exc   the Python exception that is propagating ("none" if none)    *)
(* An exception stops the chain: the state changes made before it stay,    *)
(* the rest of the chain is skipped, exactly as in the interpreter.        *)
(***************************************************************************)
EXTENDS Integers, Sequences, FiniteSets, TLC

VARIABLES role, parser, harness, server, client, net, input, marks, pos, calls,
          raised

vars == <<role, parser, harness, server, client, net, input, marks, pos, calls,
         raised>>

(***************************************************************************)
(* Python string primitives, on sequences of characters.                   *)
(***************************************************************************)
CR == "\r"
LF == "\n"
SP == " "
HT == "\t"
linesep == <<CR, LF>>

Min(a, b) == IF a < b THEN a ELSE b

\* s[i:] and s[:i] with Python's 0-based slicing (clamped).
From(s, i) == SubSeq(s, Min(i, Len(s)) + 1, Len(s))
Upto(s, i) == SubSeq(s, 1, Min(i, Len(s)))

UpperCase == <<"A","B","C","D","E","F","G","H","I","J","K","L","M",
               "N","O","P","Q","R","S","T","U","V","W","X","Y","Z">>
LowerCase == <<"a","b","c","d","e","f","g","h","i","j","k","l","m",
               "n","o","p","q","r","s","t","u","v","w","x","y","z">>

LowerChar(c) ==
    IF \E i \in 1..26 : UpperCase[i] = c
    THEN LowerCase[CHOOSE i \in 1..26 : UpperCase[i] = c]
    ELSE c

\* str.lower()
lower(s) == [i \in 1..Len(s) |-> LowerChar(s[i])]

\* the characters str.strip() removes and str.split(None) splits on
IsSpace(c) == c \in {SP, HT, LF, CR}

RECURSIVE lstrip(_)
lstrip(s) == IF s # <<>> /\ IsSpace(Head(s)) THEN lstrip(Tail(s)) ELSE s

RECURSIVE rstrip(_)
rstrip(s) ==
    IF s # <<>> /\ IsSpace(s[Len(s)]) THEN rstrip(SubSeq(s, 1, Len(s) - 1)) ELSE s

\* str.strip()
strip(s) == rstrip(lstrip(s))

\* 1-based index of the first occurrence of character c in s, 0 if none
IndexOf(s, c) ==
    IF \E i \in 1..Len(s) : s[i] = c
    THEN CHOOSE i \in 1..Len(s) : s[i] = c /\ \A j \in 1..(i - 1) : s[j] # c
    ELSE 0

\* 1-based index of the last occurrence of character c in s, 0 if none
LastIndexOf(s, c) ==
    IF \E i \in 1..Len(s) : s[i] = c
    THEN CHOOSE i \in 1..Len(s) : s[i] = c /\ \A j \in (i + 1)..Len(s) : s[j] # c
    ELSE 0

\* 1-based index of the first "\r\n" in s, 0 if none
IndexOfCRLF(s) ==
    IF \E i \in 1..(Len(s) - 1) : s[i] = CR /\ s[i + 1] = LF
    THEN CHOOSE i \in 1..(Len(s) - 1) :
            /\ s[i] = CR /\ s[i + 1] = LF
            /\ \A j \in 1..(i - 1) : ~(s[j] = CR /\ s[j + 1] = LF)
    ELSE 0

\* str.split(c): the list of the pieces between the occurrences of c
RECURSIVE split(_, _)
split(s, c) ==
    LET i == IndexOf(s, c) IN
    IF i = 0 THEN <<s>> ELSE <<SubSeq(s, 1, i - 1)>> \o split(From(s, i), c)

\* str.splitlines(): lines end at "\r\n", "\n" or "\r"; no empty last line
RECURSIVE splitlines(_)
splitlines(s) ==
    IF s = <<>> THEN <<>>
    ELSE IF \E i \in 1..Len(s) : s[i] \in {CR, LF}
    THEN LET i == CHOOSE k \in 1..Len(s) :
                     s[k] \in {CR, LF} /\ \A j \in 1..(k - 1) : s[j] \notin {CR, LF}
             n == IF s[i] = CR /\ i < Len(s) /\ s[i + 1] = LF THEN i + 1 ELSE i
         IN  <<SubSeq(s, 1, i - 1)>> \o splitlines(From(s, n))
    ELSE <<s>>

\* s.split(None, 1): <<first word, the rest>>, or fewer pieces
SplitFirstWord(t) ==
    IF t = <<>> THEN <<>>
    ELSE IF \E i \in 1..Len(t) : IsSpace(t[i])
    THEN LET i == CHOOSE k \in 1..Len(t) :
                     IsSpace(t[k]) /\ \A j \in 1..(k - 1) : ~IsSpace(t[j])
             rest == lstrip(From(t, i))
         IN  IF rest = <<>> THEN <<SubSeq(t, 1, i - 1)>>
             ELSE <<SubSeq(t, 1, i - 1), rest>>
    ELSE <<t>>

split_ws_1(s) == SplitFirstWord(lstrip(s))

\* s.rsplit(None, 1): <<the rest, last word>>, or fewer pieces
SplitLastWord(t) ==
    IF t = <<>> THEN <<>>
    ELSE IF \E i \in 1..Len(t) : IsSpace(t[i])
    THEN LET i == CHOOSE k \in 1..Len(t) :
                     IsSpace(t[k]) /\ \A j \in (k + 1)..Len(t) : ~IsSpace(t[j])
             rest == rstrip(SubSeq(t, 1, i - 1))
         IN  IF rest = <<>> THEN <<From(t, i)>>
             ELSE <<rest, From(t, i)>>
    ELSE <<t>>

rsplit_ws_1(s) == SplitLastWord(rstrip(s))

Digits == <<"0","1","2","3","4","5","6","7","8","9">>
HexLow == <<"a","b","c","d","e","f">>

\* the value of a digit in the given base, -1 if it is none
DigitVal(c, base) ==
    IF \E i \in 1..10 : Digits[i] = c
    THEN (CHOOSE i \in 1..10 : Digits[i] = c) - 1
    ELSE IF base = 16 /\ \E i \in 1..6 : HexLow[i] = LowerChar(c)
    THEN (CHOOSE i \in 1..6 : HexLow[i] = LowerChar(c)) + 9
    ELSE -1

RECURSIVE DigitsVal(_, _, _)
DigitsVal(s, base, acc) ==
    IF s = <<>> THEN acc
    ELSE DigitsVal(Tail(s), base, acc * base + DigitVal(Head(s), base))

\* int(s, base): surrounding whitespace is ignored, one sign is allowed;
\* the result is [ok |-> FALSE] where Python raises ValueError.
IntOf(t, base) ==
    LET neg == t # <<>> /\ Head(t) = "-"
        d == IF t # <<>> /\ Head(t) \in {"-", "+"} THEN Tail(t) ELSE t
    IN  IF d = <<>> \/ \E i \in 1..Len(d) : DigitVal(d[i], base) < 0
        THEN [ok |-> FALSE, val |-> 0]
        ELSE [ok |-> TRUE,
              val |-> IF neg THEN 0 - DigitsVal(d, base, 0) ELSE DigitsVal(d, base, 0)]

int(s, base) == IntOf(strip(s), base)

\* float(s) for the forms "d", "d.d": the value in tenths; [ok |-> FALSE]
\* where Python raises ValueError (longer fractions are not used here).
FloatOf(t) ==
    LET i == IndexOf(t, ".")
        whole == IF i = 0 THEN t ELSE SubSeq(t, 1, i - 1)
        frac == IF i = 0 THEN <<"0">> ELSE From(t, i)
    IN  IF /\ whole # <<>>
           /\ Len(frac) = 1
           /\ \A k \in 1..Len(whole) : DigitVal(whole[k], 10) >= 0
           /\ DigitVal(frac[1], 10) >= 0
        THEN [ok |-> TRUE, val |-> DigitsVal(whole, 10, 0) * 10 + DigitVal(frac[1], 10)]
        ELSE [ok |-> FALSE, val |-> 0]

float(s) == FloatOf(strip(s))

(***************************************************************************)
(* common.py: the regular expressions.                                     *)
(***************************************************************************)
\* the length of the match of hdr_end = "\r?\n\r?\n" at index i of s, 0 if none
HdrEndLenAt(s, i) ==
    LET n == Len(s)
        a == IF i <= n /\ s[i] = CR THEN i + 1 ELSE i          \* \r?
        b == IF a <= n /\ s[a] = LF THEN a + 1 ELSE 0          \* \n
        c == IF b # 0 /\ b <= n /\ s[b] = CR THEN b + 1 ELSE b \* \r?
    IN  IF b # 0 /\ c <= n /\ s[c] = LF THEN c + 1 - i ELSE 0

\* hdr_end.search(s): the index of the leftmost match, 0 if none
hdr_end_search(s) ==
    IF \E i \in 1..Len(s) : HdrEndLenAt(s, i) > 0
    THEN CHOOSE i \in 1..Len(s) :
            HdrEndLenAt(s, i) > 0 /\ \A j \in 1..(i - 1) : HdrEndLenAt(s, j) = 0
    ELSE 0

\* hdr_end.split(s, 1), for s that holds a match: <<top, rest>>
SplitAt(s, i) == <<SubSeq(s, 1, i - 1), From(s, i - 1 + HdrEndLenAt(s, i))>>

hdr_end_split(s) == SplitAt(s, hdr_end_search(s))

\* the length of the match of lws = "\r?\n[ \t]+" at the head of s, 0 if none
LwsLen(s) ==
    LET a == IF s # <<>> /\ s[1] = CR THEN 2 ELSE 1
        \* the number of SP/HT from index k on
        run == [k \in 1..(Len(s) + 1) |->
                  IF \E e \in k..Len(s) : s[e] \notin {SP, HT}
                  THEN (CHOOSE e \in k..Len(s) :
                          s[e] \notin {SP, HT} /\ \A j \in k..(e - 1) : s[j] \in {SP, HT}) - k
                  ELSE Len(s) + 1 - k]
    IN  IF a <= Len(s) /\ s[a] = LF /\ run[a + 1] > 0 THEN a + run[a + 1] ELSE 0

\* lws.sub(" ", s): every folded line break becomes one space
RECURSIVE lws_sub(_)
lws_sub(s) ==
    IF s = <<>> THEN <<>>
    ELSE IF LwsLen(s) > 0 THEN <<SP>> \o lws_sub(From(s, LwsLen(s)))
    ELSE <<Head(s)>> \o lws_sub(Tail(s))

(***************************************************************************)
(* Words the code compares header names, tokens and methods with.          *)
(***************************************************************************)
w_connection == <<"c","o","n","n","e","c","t","i","o","n">>
w_transfer_encoding == <<"t","r","a","n","s","f","e","r","-","e","n","c","o","d","i","n","g">>
w_content_length == <<"c","o","n","t","e","n","t","-","l","e","n","g","t","h">>
w_chunked == <<"c","h","u","n","k","e","d">>
w_close == <<"c","l","o","s","e">>
w_host == <<"h","o","s","t">>
w_identity == <<"i","d","e","n","t","i","t","y">>
w_keep_alive == <<"k","e","e","p","-","a","l","i","v","e">>

\* x in list
InList(x, list) == \E i \in 1..Len(list) : list[i] = x

Ok(w) == w.exc = "none"
Raise(w, e) == [w EXCEPT !.exc = e]

\* Python's None for content_length, and an int
NoLength == [set |-> FALSE, val |-> 0]
Length(n) == [set |-> TRUE, val |-> n]

(***************************************************************************)
(* A subclass of HttpMessageParser that only records the callbacks it is   *)
(* given, the way the base class asks a subclass to implement them; its    *)
(* _input_start returns the allows_body it was constructed with.           *)
(* Consecutive body chunks are recorded as one run of bytes.               *)
(***************************************************************************)
Event(k, top, hdrs, data, err) ==
    [k |-> k, top |-> top, hdrs |-> hdrs, data |-> data, err |-> err]

rec_input_start(w, top_line, hdr_tuples) ==
    [w EXCEPT !.h.events = Append(@, Event("start", top_line, hdr_tuples, <<>>, "")),
              !.ret = w.h.allows]

rec_input_body(w, chunk) ==
    LET ev == w.h.events
        n == Len(ev)
    IN  IF chunk = <<>> THEN w
        ELSE IF n > 0 /\ ev[n].k = "body"
        THEN [w EXCEPT !.h.events[n].data = @ \o chunk]
        ELSE [w EXCEPT !.h.events = Append(@, Event("body", <<>>, <<>>, chunk, ""))]

rec_input_end(w) ==
    [w EXCEPT !.h.events = Append(@, Event("end", <<>>, <<>>, <<>>, ""))]

rec_input_error(w, err, detail) ==
    [w EXCEPT !.h.events = Append(@, Event("error", <<>>, <<>>, detail, err))]

(***************************************************************************)
(* push_tcp.py: _TcpConnection.                                            *)
(*   wbuf       _write_buffer, the chunks not yet sent                     *)
(*   wire       the bytes sent to the peer so far                          *)
(*   open       the socket has not been closed from this side              *)
(*   pause_cb   whether a pause callback is in place                       *)
(*   pause_sig  the call of pause_cb that the latest write or handle_write *)
(*              made: "True", "False", or "none" if it made none           *)
(***************************************************************************)
write_bufsize == 16

\* the _TcpConnection that attach_server.handle_accept hands to a server
NewTcp == [connected |-> TRUE, closing |-> FALSE, paused |-> FALSE,
           wbuf |-> <<>>, wire |-> <<>>, open |-> TRUE, pause_cb |-> TRUE,
           pause_sig |-> "none"]

\* pause_cb(True) one chunk early
WriteSignal_early(t, n) == IF t.pause_cb /\ n >= write_bufsize THEN "True" ELSE "none"

\* what pause_cb is called with after a write that leaves n chunks buffered
WriteSignal(t, n) == IF t.pause_cb /\ n > write_bufsize THEN "True" ELSE "none"

\* _TcpConnection.write
tcp_write(t, data) ==
    [t EXCEPT !.wbuf = Append(@, data), !.pause_sig = WriteSignal(t, Len(t.wbuf) + 1)]

\* _TcpConnection.pause
pause(t, paused) == [t EXCEPT !.paused = paused]

\* closing the socket whatever is buffered
tcp_close_now(t) == [pause(t, TRUE) EXCEPT !.connected = FALSE, !.open = FALSE]

\* _TcpConnection.close: flush what is buffered, then close
tcp_close(t) ==
    IF Len(t.wbuf) > 0
    THEN [pause(t, TRUE) EXCEPT !.closing = TRUE]
    ELSE [pause(t, TRUE) EXCEPT !.connected = FALSE, !.open = FALSE]

RECURSIVE Concat(_)
Concat(chunks) == IF chunks = <<>> THEN <<>> ELSE Head(chunks) \o Concat(Tail(chunks))

\* what is left in the buffer when the socket has taken n bytes of data
Unsent(data, n) == IF n < Len(data) THEN <<From(data, n)>> ELSE <<>>

\* what pause_cb is called with at the end of handle_write
DrainSignal(t) == IF t.pause_cb /\ Len(t.wbuf) < write_bufsize THEN "False" ELSE "none"

\* handle_write after the send: pause_cb(False), and close() if closing
Drained(t) ==
    IF t.closing THEN tcp_close([t EXCEPT !.pause_sig = DrainSignal(t)])
    ELSE [t EXCEPT !.pause_sig = DrainSignal(t)]

\* the send of handle_write, of which the socket takes n bytes
Send(t, data, n) == [t EXCEPT !.wire = @ \o Upto(data, n), !.wbuf = Unsent(data, n)]

\* _TcpConnection.handle_write with a socket that takes the first n bytes
tcp_handle_write(t, n) ==
    IF Len(t.wbuf) > 0 THEN Drained(Send(t, Concat(t.wbuf), n)) ELSE Drained(t)

(***************************************************************************)
(* The error dictionaries of the error module, which server.py and         *)
(* client.py import: a description, and for some a status pair.            *)
(***************************************************************************)
d_HTTP_VERSION == <<"H","T","T","P","_","V","E","R","S","I","O","N">>
d_HOST_REQ == <<"H","O","S","T","_","R","E","Q">>
d_TRANSFER_CODE == <<"T","R","A","N","S","F","E","R","_","C","O","D","E">>
d_other == <<"E","R","R">>

ErrDesc(err) ==
    CASE err = "HTTP_VERSION" -> d_HTTP_VERSION
      [] err = "HOST_REQ" -> d_HOST_REQ
      [] err = "TRANSFER_CODE" -> d_TRANSFER_CODE
      [] OTHER -> d_other

ErrNames == {"HTTP_VERSION", "HOST_REQ", "WHITESPACE_HDR", "TRANSFER_CODE",
             "EXTRA_DATA", "CHUNK", "CONNECT", "URL", "CL_REQ"}

\* err['detail'] of every dictionary: the dictionaries are module globals
NoDetails == [e \in ErrNames |-> [set |-> FALSE, val |-> <<>>]]

(***************************************************************************)
(* server.py.  The State decorator of state_enforce is taken to call the   *)
(* method it wraps.                                                        *)
(*   reqs    every HttpServerRequest made on the connection, by arrival    *)
(*   queue   HttpServerConnection._queue, as indices into reqs             *)
(*   has_tcp whether HttpServerConnection._tcp_conn is set (not None)      *)
(*   writes  which request wrote which chunk to the connection, in order   *)
(*   log     the calls made to and by the application's handlers           *)
(***************************************************************************)
s_http11 == <<"H","T","T","P","/","1",".","1",SP>>
s_te_chunked == <<"T","r","a","n","s","f","e","r","-","E","n","c","o","d","i","n","g",":",SP,"c","h","u","n","k","e","d">>
s_conn_close_asked == <<"C","o","n","n","e","c","t","i","o","n",":",SP,"c","l","o","s","e",",",SP,"a","s","k","e","d","_","f","o","r">>
s_content_length == <<"C","o","n","t","e","n","t","-","L","e","n","g","t","h",":",SP>>
s_conn_keep_alive == <<"C","o","n","n","e","c","t","i","o","n",":",SP,"k","e","e","p","-","a","l","i","v","e">>
s_conn_close == <<"C","o","n","n","e","c","t","i","o","n",":",SP,"c","l","o","s","e">>
s_last_chunk == <<"0",CR,LF,CR,LF>>
s_200 == <<"2","0","0">>
s_OK == <<"O","K">>
s_400 == <<"4","0","0">>
s_Bad_Request == <<"B","a","d",SP,"R","e","q","u","e","s","t">>
s_Content_Type == <<"C","o","n","t","e","n","t","-","T","y","p","e">>
s_text_plain == <<"t","e","x","t","/","p","l","a","i","n">>
s_hi == <<"h","i">>

hop_by_hop_hdrs ==
    <<w_connection, w_keep_alive,
      <<"p","r","o","x","y","-","a","u","t","h","e","n","t","i","c","a","t","e">>,
      <<"p","r","o","x","y","-","a","u","t","h","o","r","i","z","a","t","i","o","n">>,
      <<"t","e">>, <<"t","r","a","i","l","e","r","s">>, w_transfer_encoding,
      <<"u","p","g","r","a","d","e">> >>

\* str(n) for an integer
RECURSIVE NatStr(_, _)
NatStr(n, base) ==
    LET d == IF n % base < 10 THEN Digits[(n % base) + 1] ELSE HexLow[(n % base) - 9]
    IN  IF n < base THEN <<d>> ELSE NatStr(n \div base, base) \o <<d>>

str(n) == IF n < 0 THEN <<"-">> \o NatStr(0 - n, 10) ELSE NatStr(n, 10)

\* hex(n)[2:] for n >= 0
hex2(n) == NatStr(n, 16)

\* sep.join(list)
RECURSIVE join(_, _)
join(sep, list) ==
    IF list = <<>> THEN <<>>
    ELSE IF Len(list) = 1 THEN list[1]
    ELSE list[1] \o sep \o join(sep, Tail(list))

\* HttpServerRequest.__init__, with the fields _input_start sets at once
NewRequest(conn_tokens, hdr_tuples) ==
    [method |-> <<>>, uri |-> <<>>, req_version |-> -1,
     hdr_tuples |-> hdr_tuples, connection_hdr |-> conn_tokens,
     tcp |-> FALSE, res_state |-> "WAITING", res_delimit |-> "unset",
     req_body_buffer |-> <<>>, req_done |-> "False", error |-> "",
     cb |-> FALSE, app |-> "new", res_body_pause_cb |-> "unset"]

\* HttpServerConnection.__init__ for an application app
NewServer(app) ==
    [on |-> TRUE, has_tcp |-> TRUE, queue |-> <<>>, reqs |-> <<>>,
     tcp |-> NewTcp, writes |-> <<>>, log |-> <<>>, details |-> NoDetails,
     app |-> app, res_body_pause_cb |-> "dummy", res_pause |-> <<>>]

AppEv(k, id, data, err) == [k |-> k, req |-> id, data |-> data, err |-> err]

Log(w, k, id, data, err) == [w EXCEPT !.s.log = Append(@, AppEv(k, id, data, err))]

\* HttpServerConnection._res_body_pause: the connection's own
\* _res_body_pause_cb is called; res_pause is what the handler's callback got
conn_res_body_pause(w, paused) ==
    IF w.s.res_body_pause_cb = "dummy" THEN w
    ELSE [w EXCEPT !.s.res_pause = Append(@, paused)]

\* the call of pause_cb that the connection has just made, if it made one
PauseCb(w, sig) == IF sig = "none" THEN w ELSE conn_res_body_pause(w, sig = "True")

\* self._tcp_conn.write(data) of request id
req_write(w, id, data) ==
    IF ~Ok(w) THEN w
    ELSE IF ~w.s.reqs[id].tcp THEN Raise(w, "AttributeError")
    ELSE PauseCb([w EXCEPT !.s.tcp = tcp_write(@, data),
                           !.s.writes = Append(@, [req |-> id, data |-> data])],
                 WriteSignal(w.s.tcp, Len(w.s.tcp.wbuf) + 1))

\* self._tcp_conn.close() of request id
req_close(w, id) ==
    IF ~Ok(w) THEN w
    ELSE IF ~w.s.reqs[id].tcp THEN Raise(w, "AttributeError")
    ELSE [w EXCEPT !.s.tcp = tcp_close(@)]

\* one header of res_start's loop, its normalised name given
ResHeader(acc, name, value, norm_name) ==
    IF norm_name = w_content_length /\ ~int(value, 10).ok
    THEN [acc EXCEPT !.ok = FALSE]
    ELSE [acc EXCEPT
            !.len = IF norm_name = w_content_length
                    THEN Length(int(value, 10).val) ELSE @,
            !.lines = IF InList(norm_name, hop_by_hop_hdrs) THEN @
                      ELSE Append(@, name \o <<":", SP>> \o value)]

\* the header lines res_start keeps: [ok, len: the Content-Length, lines]
RECURSIVE ResHeaders(_, _)
ResHeaders(res_hdrs, acc) ==
    IF res_hdrs = <<>> \/ ~acc.ok THEN acc
    ELSE ResHeaders(Tail(res_hdrs),
                    ResHeader(acc, Head(res_hdrs)[1], Head(res_hdrs)[2],
                              lower(strip(Head(res_hdrs)[1]))))

\* the delimitation res_start chooses and the header line it adds for it
ResDelimit(req, res_len) ==
    IF InList(w_close, req.connection_hdr)
    THEN [delimit |-> "CLOSE", lines |-> <<s_conn_close_asked>>]
    ELSE IF res_len.set
    THEN [delimit |-> "COUNTED",
          lines |-> <<s_content_length \o str(res_len.val), s_conn_keep_alive>>]
    ELSE IF req.req_version >= 11 /\ req.req_version < 20
    THEN [delimit |-> "CHUNKED", lines |-> <<s_te_chunked>>]
    ELSE [delimit |-> "CLOSE", lines |-> <<s_conn_close>>]

\* self._res_state = HEADERS_DONE, reached unless the write raised
HeadersDone(w, id) ==
    IF Ok(w) THEN [w EXCEPT !.s.reqs[id].res_state = "HEADERS_DONE"] ELSE w

\* res_start from the choice of the delimitation d on, the headers h kept
ResStartWrite(w, id, status_code, status_phrase, h, d) ==
    HeadersDone(
        req_write([w EXCEPT !.s.reqs[id].res_delimit = d.delimit], id,
                  join(linesep, <<s_http11 \o status_code \o <<SP>> \o status_phrase>>
                                   \o h.lines \o d.lines \o <<linesep>>)),
        id)

\* res_start after its log line, the headers h of its loop given
ResStartWith(w, id, status_code, status_phrase, h) ==
    IF w.s.reqs[id].res_state # "WAITING" THEN Raise(w, "AssertionError")
    ELSE IF ~h.ok THEN Raise(w, "ValueError")
    ELSE ResStartWrite([w EXCEPT !.s.reqs[id].res_body_pause_cb =
                            IF w.s.reqs[id].error = "" THEN "handler" ELSE "dummy"],
                       id, status_code, status_phrase, h,
                       ResDelimit(w.s.reqs[id], h.len))

\* HttpServerRequest.res_start
res_start(w, id, status_code, status_phrase, res_hdrs) ==
    IF ~Ok(w) THEN w
    ELSE ResStartWith(Log(w, "res_start", id, status_code, ""), id,
                      status_code, status_phrase,
                      ResHeaders(res_hdrs, [ok |-> TRUE, len |-> NoLength, lines |-> <<>>]))

\* a chunk written as it is whatever the delimitation
res_body_raw(w, id, chunk) ==
    IF ~Ok(w) THEN w
    ELSE IF w.s.reqs[id].res_state # "HEADERS_DONE"
    THEN Raise(Log(w, "res_body", id, chunk, ""), "AssertionError")
    ELSE IF chunk = <<>> THEN Log(w, "res_body", id, chunk, "")
    ELSE req_write(Log(w, "res_body", id, chunk, ""), id, chunk)

\* HttpServerRequest.res_body
res_body(w, id, chunk) ==
    IF ~Ok(w) THEN w
    ELSE IF w.s.reqs[id].res_state # "HEADERS_DONE"
    THEN Raise(Log(w, "res_body", id, chunk, ""), "AssertionError")
    ELSE IF chunk = <<>> THEN Log(w, "res_body", id, chunk, "")
    ELSE req_write(Log(w, "res_body", id, chunk, ""), id,
                   IF w.s.reqs[id].res_delimit = "CHUNKED"
                   THEN hex2(Len(chunk)) \o linesep \o chunk \o linesep
                   ELSE chunk)

RECURSIVE req_start(_, _)

\* the request that has just arrived is started, whatever is before it
StartsAtOnce_newest(queue) == queue[Len(queue)]

\* which request is started once a new one has been taken into the queue,
\* 0 for none: "if len(self._queue) == 1: self._queue[0].req_start(...)"
StartsAtOnce(queue) == IF Len(queue) = 1 THEN queue[1] ELSE 0

\* the head of the queue taken off and the next request left waiting
conn_res_done_no_next(w, id) ==
    IF ~Ok(w) THEN w
    ELSE IF w.s.queue = <<>> THEN Raise(w, "IndexError")
    ELSE IF Head(w.s.queue) # id
    THEN Raise([w EXCEPT !.s.queue = Tail(@)], "AssertionError")
    ELSE [w EXCEPT !.s.queue = Tail(@)]

\* HttpServerConnection.res_done: the head of the queue has finished
conn_res_done(w, id) ==
    IF ~Ok(w) THEN w
    ELSE IF w.s.queue = <<>> THEN Raise(w, "IndexError")
    ELSE IF Head(w.s.queue) # id
    THEN Raise([w EXCEPT !.s.queue = Tail(@)], "AssertionError")
    ELSE IF Len(w.s.queue) > 1
    THEN req_start([w EXCEPT !.s.queue = Tail(@)], w.s.queue[2])
    ELSE [w EXCEPT !.s.queue = Tail(@)]

\* what res_done does to the connection for its delimitation, after its log line
ResEnd(w, id, err) ==
    IF err # "" THEN req_close(w, id)
    ELSE IF w.s.reqs[id].res_delimit = "NONE" THEN w
    ELSE IF w.s.reqs[id].res_delimit = "CHUNKED" THEN req_write(w, id, s_last_chunk)
    ELSE IF w.s.reqs[id].res_delimit = "CLOSE" THEN req_close(w, id)
    ELSE IF w.s.reqs[id].res_delimit = "COUNTED" THEN w
    ELSE Raise(w, "AssertionError")

\* HttpServerRequest.res_done; err is "" for None
res_done(w, id, err) ==
    IF ~Ok(w) THEN w
    ELSE IF w.s.reqs[id].res_state # "HEADERS_DONE"
    THEN Raise(Log(w, "res_done", id, <<>>, err), "AssertionError")
    ELSE conn_res_done(ResEnd(Log(w, "res_done", id, <<>>, err), id, err), id)

\* the application has been called and has returned its two callbacks
Started(w, id) == Log([w EXCEPT !.s.reqs[id].app = "started"], "handler", id, <<>>, "")

\* the application has answered in full
Answered(w, id) == IF Ok(w) THEN [w EXCEPT !.s.reqs[id].app = "done"] ELSE w

\* the application's handler.  A synchronous one answers inside the call,
\* like test_handler; the other keeps res_start and answers later.
request_handler(w, id) ==
    IF ~Ok(w) THEN w
    ELSE IF w.s.app.sync
    THEN Answered(res_done(res_body(res_start(Started(w, id), id, s_200, s_OK,
                                              w.s.app.hdrs),
                                    id, w.s.app.body),
                           id, ""),
                  id)
    ELSE Started(w, id)

\* for chunk in self._req_body_buffer: self.req_body_cb(chunk)
RECURSIVE DeliverBuffer(_, _, _)
DeliverBuffer(w, id, chunks) ==
    IF chunks = <<>> THEN w
    ELSE DeliverBuffer(Log(w, "req_body", id, Head(chunks), ""), id, Tail(chunks))

\* if self._req_done: self.req_done_cb(self._req_done)
DeliverDone(w, id) ==
    IF w.s.reqs[id].req_done \notin {"False", "None"}
    THEN Log(w, "req_done", id, <<>>, w.s.reqs[id].req_done)
    ELSE w

\* req_start once request_handler has returned the request's callbacks
Deliver(w, id) ==
    IF ~Ok(w) THEN w
    ELSE DeliverDone(DeliverBuffer([w EXCEPT !.s.reqs[id].cb = TRUE], id,
                                   w.s.reqs[id].req_body_buffer),
                     id)

\* the body of the synthetic response to a request with an error
ErrorBody(w, err) ==
    IF w.s.details[err].set
    THEN ErrDesc(err) \o <<SP, "(">> \o w.s.details[err].val \o <<")">>
    ELSE ErrDesc(err)

\* self._tcp_conn = tcp_conn
WithTcp(w, id) == [w EXCEPT !.s.reqs[id].tcp = w.s.has_tcp]

\* HttpServerRequest.req_start
req_start(w, id) ==
    IF ~Ok(w) THEN w
    ELSE IF w.s.reqs[id].error = ""
    THEN Deliver(request_handler(WithTcp(w, id), id), id)
    ELSE res_done(res_body(res_start(WithTcp(w, id), id, s_400, s_Bad_Request,
                                     <<<<s_Content_Type, s_text_plain>>>>),
                           id, ErrorBody(w, w.s.reqs[id].error)),
                  id, w.s.reqs[id].error)

\* HttpServerRequest.req_body
req_body(w, id, chunk) ==
    IF w.s.reqs[id].cb THEN Log(w, "req_body", id, chunk, "")
    ELSE [w EXCEPT !.s.reqs[id].req_body_buffer = Append(@, chunk)]

\* HttpServerRequest.req_done; err is "None" for None
req_done(w, id, err) ==
    IF w.s.reqs[id].cb THEN Log(w, "req_done", id, <<>>, err)
    ELSE [w EXCEPT !.s.reqs[id].req_done = err]

\* HttpServerRequest._handle_error
req_handle_error(w, id, err, detail) ==
    IF w.s.reqs[id].res_state # "WAITING" THEN Raise(w, "AssertionError")
    ELSE [w EXCEPT !.s.details[err] = IF detail # <<>>
                                      THEN [set |-> TRUE, val |-> detail] ELSE @,
                   !.s.reqs[id].error = err]

\* float(req_version.rsplit('/', 1)[1]), [ok |-> FALSE] where that raises
VersionOf(req_version, i) ==
    IF i > 0 THEN float(From(req_version, i)) ELSE [ok |-> FALSE, val |-> 0]

\* the start line taken apart as far as it goes: a is the result of the
\* first split, b of the second, v the version
LineOf(a, b, v) ==
    [method |-> IF Len(a) = 2 THEN a[1] ELSE <<>>,
     uri |-> IF Len(b) = 2 THEN b[1] ELSE <<>>,
     req_version |-> IF v.ok THEN v.val ELSE -1,
     ok |-> v.ok]

LineOfSplit(a, b) ==
    LineOf(a, b, IF Len(b) = 2 THEN VersionOf(b[2], LastIndexOf(b[2], "/"))
                 ELSE [ok |-> FALSE, val |-> 0])

LineOfFirst(a) == LineOfSplit(a, IF Len(a) = 2 THEN rsplit_ws_1(a[2]) ELSE <<>>)

\* the start line as _input_start takes it apart: what was assigned before
\* the first failure, and whether all of it was
RequestLine(top_line) == LineOfFirst(split_ws_1(top_line))

\* 'host' not in [k.strip().lower() for (k, v) in hdr_tuples]
NoHost(hdr_tuples) ==
    \A i \in 1..Len(hdr_tuples) : lower(strip(hdr_tuples[i][1])) # w_host

\* the error, if any, with which _input_start rejects the request
RequestError(line, hdr_tuples, transfer_codes) ==
    IF ~line.ok THEN "HTTP_VERSION"
    ELSE IF line.req_version = 11 /\ NoHost(hdr_tuples) THEN "HOST_REQ"
    \* hdr_tuples[:1][:1][:1] in [" ", "\t"] compares a list with strings:
    \* it is never true, so ERR_WHITESPACE_HDR is never chosen
    ELSE IF \E i \in 1..Len(transfer_codes) :
                transfer_codes[i] \notin {w_identity, w_chunked}
    THEN "TRANSFER_CODE"
    ELSE ""

\* req = HttpServerRequest(self) ...; self._queue.append(req)
Enqueue(w, conn_tokens, hdr_tuples, line) ==
    [w EXCEPT !.s.reqs = Append(@, [NewRequest(conn_tokens, hdr_tuples) EXCEPT
                                       !.method = line.method, !.uri = line.uri,
                                       !.req_version = line.req_version]),
              !.s.queue = Append(@, Len(w.s.reqs) + 1)]

\* "raise ValueError" after _handle_error
Rejected(w) == IF Ok(w) THEN Raise(w, "ValueError") ELSE w

\* "return allows_body"
Returns(w, value) == IF Ok(w) THEN [w EXCEPT !.ret = value] ELSE w

\* _input_start once the request is in the queue: err is what it is
\* rejected with, "" if it is not
InputStarted(w, id, err, top_line, allows_body) ==
    IF err # ""
    THEN Rejected(req_handle_error(w, id, err,
                                   IF err = "HTTP_VERSION" THEN top_line ELSE <<>>))
    ELSE IF StartsAtOnce(w.s.queue) # 0
    THEN Returns(req_start(w, StartsAtOnce(w.s.queue)), allows_body)
    ELSE Returns(w, allows_body)

\* HttpServerConnection._input_start
srv_input_start(w, top_line, hdr_tuples, conn_tokens, transfer_codes, content_length) ==
    InputStarted(Enqueue(w, conn_tokens, hdr_tuples, RequestLine(top_line)),
                 Len(w.s.reqs) + 1,
                 RequestError(RequestLine(top_line), hdr_tuples, transfer_codes),
                 top_line,
                 (content_length.set /\ content_length.val # 0) \/ transfer_codes # <<>>)

\* HttpServerConnection._input_body
srv_input_body(w, chunk) ==
    IF w.s.queue = <<>> THEN Raise(w, "IndexError")
    ELSE req_body(w, w.s.queue[Len(w.s.queue)], chunk)

\* HttpServerConnection._input_end
srv_input_end(w) ==
    IF w.s.queue = <<>> THEN Raise(w, "IndexError")
    ELSE req_done(w, w.s.queue[Len(w.s.queue)], "None")

\* err['detail'] = detail; if self._tcp_conn: close it and forget it
ErrorClose(w, err, detail) ==
    [w EXCEPT !.s.details[err] = [set |-> TRUE, val |-> detail],
              !.s.tcp = IF w.s.has_tcp THEN tcp_close(@) ELSE @,
              !.s.has_tcp = FALSE]

\* HttpServerConnection._input_error
srv_input_error(w, err, detail) ==
    IF w.s.queue = <<>> THEN Raise(ErrorClose(w, err, detail), "IndexError")
    ELSE req_done(ErrorClose(w, err, detail), w.s.queue[Len(w.s.queue)], err)

(***************************************************************************)
(* client.py, the part the parser calls back.  w.c holds                   *)
(*   cl      the Client objects; cur is the one whose parser is w.p        *)
(*   conns   the _TcpConnection objects the clients were given             *)
(*   pool    _HttpConnectionPool._conns[(host, port)] for the one host     *)
(*   dials   the create_client objects                                     *)
(*   log     the calls made to the application's callbacks, and the        *)
(*           calls of read_cb with whether the connection was then idle    *)
(***************************************************************************)
m_GET == <<"G","E","T">>
m_POST == <<"P","O","S","T">>
m_HEAD == <<"H","E","A","D">>

idempotent_methods ==
    <<m_GET, m_HEAD, <<"P","U","T">>, <<"D","E","L","E","T","E">>,
      <<"O","P","T","I","O","N","S">>, <<"T","R","A","C","E">> >>

no_body_status == << <<"1","0","0">>, <<"1","0","1">>, <<"2","0","4">>, <<"3","0","4">> >>

retry_limit == 2

s_504 == <<"5","0","4">>

\* the hosts that request URIs name
Hosts == {"x", "y"}

\* Client.__init__; host is the authority of the URI that the application
\* is going to give to req_start; marked is what the test of lines 193-196
\* has found for the latest response, kept apart from _conn_reusable
NewClient(method) ==
    [method |-> method, tcp |-> 0, conn_reusable |-> FALSE, req_state |-> "WAITING",
     retries |-> 0, cbs |-> FALSE, asked |-> FALSE, host |-> "x", marked |-> FALSE]

\* _TcpConnection.__init__
NewConn ==
    [connected |-> TRUE, closing |-> FALSE, paused |-> FALSE, wbuf |-> <<>>,
     wire |-> <<>>, open |-> TRUE, pause_cb |-> FALSE, pause_sig |-> "none",
     host |-> "x", read_cb |-> 0, close_cb |-> "none", close_cb_called |-> FALSE]

CliEv(k, cl, data, err) == [k |-> k, cl |-> cl, data |-> data, err |-> err, idle |-> FALSE]

CLog(w, k, cl, data, err) == [w EXCEPT !.c.log = Append(@, CliEv(k, cl, data, err))]

\* the application's res_body callback: consecutive chunks are logged as one
CLogBody(w, cl, chunk) ==
    IF chunk = <<>> THEN w
    ELSE IF w.c.log # <<>> /\ w.c.log[Len(w.c.log)].k = "res_body"
                           /\ w.c.log[Len(w.c.log)].cl = cl
    THEN [w EXCEPT !.c.log[Len(w.c.log)].data = @ \o chunk]
    ELSE CLog(w, "res_body", cl, chunk, "")

\* _HttpConnectionPool.release
release(w, c) ==
    IF w.c.conns[c].connected
    THEN [w EXCEPT !.c.conns[c].close_cb = "idle",
                   !.c.pool[w.c.conns[c].host] = Append(@, c)]
    ELSE w

\* self.res_end_cb(err): None is not callable before res_start_cb has run
res_end_cb(w, k, err) ==
    IF w.c.cl[k].cbs THEN CLog(w, "res_end", k, <<>>, err) ELSE Raise(w, "TypeError")

\* Client._input_end; err is "" for None
cli_input_end(w, k, err) ==
    IF ~Ok(w) THEN w
    ELSE IF w.c.cl[k].tcp = 0 THEN res_end_cb(w, k, err)
    ELSE IF /\ w.c.conns[w.c.cl[k].tcp].connected
            /\ w.c.cl[k].conn_reusable
            /\ err = ""
    THEN res_end_cb(release(w, w.c.cl[k].tcp), k, err)
    ELSE res_end_cb([w EXCEPT !.c.conns[w.c.cl[k].tcp] = tcp_close(@),
                              !.c.cl[k].tcp = 0],
                    k, err)

\* the status line taken apart: v is the version, b the split of the rest
StatusOf(v, status_txt, b) ==
    [ok |-> v.ok, res_version |-> v.val,
     res_code |-> IF Len(b) = 2 THEN b[1] ELSE status_txt]

StatusOfSplit(a) ==
    IF Len(a) = 2
    THEN StatusOf(VersionOf(a[1], LastIndexOf(a[1], "/")), a[2], split_ws_1(a[2]))
    ELSE [ok |-> FALSE, res_version |-> 0, res_code |-> <<>>]

\* the status line as Client._input_start takes it apart
StatusLine(top_line) == StatusOfSplit(split_ws_1(top_line))

\* whether _input_start sets self._conn_reusable
Reusable(res_version, conn_tokens) ==
    /\ ~InList(w_close, conn_tokens)
    /\ \/ res_version = 10 /\ InList(w_keep_alive, conn_tokens)
       \/ res_version > 10

\* Client._input_start once the status line st is taken apart
ResponseStarted(w, k, st, hdr_tuples, conn_tokens) ==
    IF ~st.ok THEN Raise(w, "ValueError")
    ELSE [CLog(w, "res_start", k, st.res_code, "") EXCEPT
            !.c.cl[k].conn_reusable = @ \/ Reusable(st.res_version, conn_tokens),
            !.c.cl[k].marked = Reusable(st.res_version, conn_tokens),
            !.c.cl[k].cbs = TRUE,
            !.ret = ~InList(st.res_code, no_body_status) \/ w.c.cl[k].method = m_HEAD]

\* Client._input_start
cli_input_start(w, top_line, hdr_tuples, conn_tokens) ==
    ResponseStarted(w, w.c.cur, StatusLine(top_line), hdr_tuples, conn_tokens)

\* Client._input_body
cli_input_body(w, chunk) ==
    IF w.c.cl[w.c.cur].cbs THEN CLogBody(w, w.c.cur, chunk) ELSE Raise(w, "TypeError")

\* HttpMessageParser._input_error, which Client does not override
cli_input_error(w, err, detail) == Raise(w, "NotImplementedError")

(***************************************************************************)
(* The callbacks of the parser, by the class of the object.                *)
(***************************************************************************)
input_start(w, top_line, hdr_tuples, conn_tokens, transfer_codes, content_length) ==
    IF ~Ok(w) THEN w
    ELSE IF w.role = "server"
    THEN srv_input_start(w, top_line, hdr_tuples, conn_tokens, transfer_codes,
                         content_length)
    ELSE IF w.role = "client"
    THEN cli_input_start(w, top_line, hdr_tuples, conn_tokens)
    ELSE rec_input_start(w, top_line, hdr_tuples)

input_body(w, chunk) ==
    IF ~Ok(w) THEN w
    ELSE IF w.role = "server" THEN srv_input_body(w, chunk)
    ELSE IF w.role = "client" THEN cli_input_body(w, chunk)
    ELSE rec_input_body(w, chunk)

input_end(w) ==
    IF ~Ok(w) THEN w
    ELSE IF w.role = "server" THEN srv_input_end(w)
    ELSE IF w.role = "client" THEN cli_input_end(w, w.c.cur, "")
    ELSE rec_input_end(w)

input_error(w, err, detail) ==
    IF ~Ok(w) THEN w
    ELSE IF w.role = "server" THEN srv_input_error(w, err, detail)
    ELSE IF w.role = "client" THEN cli_input_error(w, err, detail)
    ELSE rec_input_error(w, err, detail)

(***************************************************************************)
(* common.py: HttpMessageParser.                                           *)
(***************************************************************************)
\* HttpMessageParser.__init__
NewParser == [buf |-> <<>>, state |-> "WAITING", delimit |-> "unset", left |-> 0]

\* [v.strip().lower() for v in f_val.split(',')]
TokensOf(parts) == [i \in 1..Len(parts) |-> lower(strip(parts[i]))]

Tokens(f_val) == TokensOf(split(f_val, ","))

\* one header line of the loop of _parse_headers: fn and fv are the two
\* sides of the first colon, f_name and f_val what the code makes of them
ScanHeader(acc, fn, fv, f_name, f_val) ==
    [acc EXCEPT
       !.hdr_tuples = Append(@, <<fn, fv>>),
       !.conn_tokens = IF f_name = w_connection THEN @ \o Tokens(f_val) ELSE @,
       !.transfer_codes = IF f_name = w_transfer_encoding THEN @ \o Tokens(f_val) ELSE @,
       !.content_length = IF f_name = w_content_length /\ ~@.set /\ int(f_val, 10).ok
                          THEN Length(int(f_val, 10).val) ELSE @]

\* a line that holds a colon at index i
ScanLine(acc, line, i) ==
    ScanHeader(acc, SubSeq(line, 1, i - 1), From(line, i),
               lower(strip(SubSeq(line, 1, i - 1))), strip(From(line, i)))

\* the loop of _parse_headers over the header lines
RECURSIVE ScanHeaders(_, _)
ScanHeaders(lines, acc) ==
    IF lines = <<>> THEN acc
    ELSE IF IndexOf(Head(lines), ":") = 0
    THEN ScanHeaders(Tail(lines), acc)                      \* ValueError: continue
    ELSE ScanHeaders(Tail(lines), ScanLine(acc, Head(lines), IndexOf(Head(lines), ":")))

\* the delimitation chosen with the close token looked at before the length
ChooseDelimit_close_first(p, allows_body, conn_tokens, transfer_codes, content_length) ==
    IF ~allows_body THEN [p EXCEPT !.delimit = "NONE"]
    ELSE IF Len(transfer_codes) > 0
    THEN IF InList(w_chunked, transfer_codes)
         THEN [p EXCEPT !.delimit = "CHUNKED", !.left = -1]
         ELSE [p EXCEPT !.delimit = "CLOSE"]
    ELSE IF InList(w_close, conn_tokens)
    THEN [p EXCEPT !.delimit = "CLOSE"]
    ELSE IF content_length.set
    THEN [p EXCEPT !.delimit = "COUNTED", !.left = content_length.val]
    ELSE [p EXCEPT !.delimit = "NONE"]

\* the delimitation _parse_headers chooses once _input_start has returned
ChooseDelimit(p, allows_body, conn_tokens, transfer_codes, content_length) ==
    IF ~allows_body THEN [p EXCEPT !.delimit = "NONE"]
    ELSE IF Len(transfer_codes) > 0
    THEN IF InList(w_chunked, transfer_codes)
         THEN [p EXCEPT !.delimit = "CHUNKED", !.left = -1]
         ELSE [p EXCEPT !.delimit = "CLOSE"]
    ELSE IF content_length.set
    THEN [p EXCEPT !.delimit = "COUNTED", !.left = content_length.val]
    ELSE IF InList(w_close, conn_tokens)
    THEN [p EXCEPT !.delimit = "CLOSE"]
    ELSE [p EXCEPT !.delimit = "NONE"]

\* content-length is ignored if transfer-encoding is present
BodyLength(h0) == IF h0.transfer_codes # <<>> THEN NoLength ELSE h0.content_length

\* _parse_headers once _input_start has returned or raised
HeadersParsed(w, h0, rest) ==
    IF w.exc = "ValueError" THEN [w |-> [w EXCEPT !.exc = "none"], rest |-> <<>>]
    ELSE IF ~Ok(w) THEN [w |-> w, rest |-> <<>>]
    ELSE [w |-> [w EXCEPT !.p = ChooseDelimit([w.p EXCEPT !.state = "HEADERS_DONE"],
                                  w.ret, h0.conn_tokens, h0.transfer_codes,
                                  BodyLength(h0))],
          rest |-> rest]

\* _parse_headers from the call of _input_start on
HeadersScanned(w, top_line, h0, rest) ==
    HeadersParsed(input_start(w, top_line, h0.hdr_tuples, h0.conn_tokens,
                              h0.transfer_codes, BodyLength(h0)),
                  h0, rest)

\* _parse_headers once the header block is split into its lines
HeaderLines(w, hdr_lines, rest) ==
    IF hdr_lines = <<>> THEN [w |-> w, rest |-> <<>>]           \* IndexError: empty
    ELSE HeadersScanned(w, Head(hdr_lines),
                        ScanHeaders(Tail(hdr_lines),
                           [hdr_tuples |-> <<>>, conn_tokens |-> <<>>,
                            transfer_codes |-> <<>>, content_length |-> NoLength]),
                        rest)

HeaderBlock(w, parts) == HeaderLines(w, splitlines(lws_sub(parts[1])), parts[2])

\* _parse_headers: [w |-> the world after it, rest |-> what it returns]
parse_headers(w, instr) == HeaderBlock(w, hdr_end_split(instr))

\* what is handed on after a chunk's data: "+2 consumes the CRLF"
AfterChunk(instr, this_chunk) == From(instr, this_chunk + 2)

\* a counter that is left as it was
Remaining_unchanged(left, instr) == left

\* the counter of a partly received body taken down by one too many
Remaining_less(left, instr) == left - Len(instr) - 1

\* the counter of a partly received body: _input_body_left -= len(instr)
Remaining(left, instr) == left - Len(instr)

\* the buffer of the WAITING branch when the header block is not complete
PartialHeaders(instr) == instr

\* the state left as it was
SetState_kept(w, st) == w

\* self._input_body_left = n, self._input_state = st: skipped if a callback raised
SetLeft(w, n) == IF Ok(w) THEN [w EXCEPT !.p.left = n] ELSE w
SetState(w, st) == IF Ok(w) THEN [w EXCEPT !.p.state = st] ELSE w

\* the first part of a chunk-size line, before any ";"
ChunkSize(line) == IF InList(";", line) THEN split(line, ";")[1] ELSE line

RECURSIVE handle_input(_, _)

\* self._handle_input(rest) with what _parse_headers returned
Parsed(r) == IF Ok(r.w) THEN handle_input(r.w, r.rest) ELSE r.w

\* the chunk-size line that ends at index i of instr
ChunkLine(w0, line, rest, chunk_size) ==
    IF strip(line) = <<>> THEN handle_input(w0, rest)           \* bare line
    ELSE IF ~int(chunk_size, 16).ok THEN input_error(w0, "CHUNK", chunk_size)
    ELSE handle_input([w0 EXCEPT !.p.left = int(chunk_size, 16).val], rest)

\* HttpMessageParser._handle_input
handle_input(w, instr0) ==
    LET instr == w.p.buf \o instr0
        w0 == [w EXCEPT !.p.buf = <<>>]
        left == w.p.left
    IN
    IF ~Ok(w) THEN w
    ELSE IF w.p.state = "WAITING" THEN
        IF hdr_end_search(instr) # 0
        THEN Parsed(parse_headers(w0, instr))
        ELSE [w0 EXCEPT !.p.buf = PartialHeaders(instr)]
    ELSE IF w.p.state # "HEADERS_DONE" THEN Raise(w0, "Exception")
    ELSE IF w.p.delimit = "NONE" THEN
        SetState(IF instr # <<>> THEN input_error(w0, "EXTRA_DATA", instr)
                 ELSE input_end(w0),
                 "WAITING")
    ELSE IF w.p.delimit = "CLOSE" THEN input_body(w0, instr)
    ELSE IF w.p.delimit = "CHUNKED" THEN
        IF left > 0 THEN
            IF left < Len(instr)
            THEN handle_input(SetLeft(input_body(w0, Upto(instr, left)), -1),
                              AfterChunk(instr, left))
            ELSE IF left = Len(instr)
            THEN SetLeft(input_body(w0, instr), -1)
            ELSE SetLeft(input_body(w0, instr), Remaining(left, instr))
        ELSE IF left = 0 THEN
            IF Len(instr) >= 2 /\ Upto(instr, 2) = linesep
            THEN handle_input(SetState(input_end(w0), "WAITING"), From(instr, 2))
            ELSE IF hdr_end_search(instr) # 0
            THEN handle_input(SetState(input_end(w0), "WAITING"), hdr_end_split(instr)[2])
            ELSE [w0 EXCEPT !.p.buf = instr]
        ELSE
            IF IndexOfCRLF(instr) = 0
            THEN [w0 EXCEPT !.p.buf = @ \o instr]                \* no CRLF yet: wait
            ELSE ChunkLine(w0, SubSeq(instr, 1, IndexOfCRLF(instr) - 1),
                           From(instr, IndexOfCRLF(instr) + 1),
                           ChunkSize(SubSeq(instr, 1, IndexOfCRLF(instr) - 1)))
    ELSE IF w.p.delimit = "COUNTED" THEN
        IF left < 0 THEN Raise(w0, "AssertionError")
        ELSE IF left <= Len(instr) THEN
            IF From(instr, left) # <<>>
            THEN input_error(SetState(input_body(w0, Upto(instr, left)), "WAITING"),
                             "EXTRA_DATA", From(instr, left))
            ELSE input_end(SetState(input_body(w0, Upto(instr, left)), "WAITING"))
        ELSE SetLeft(input_body(w0, instr), Remaining(left, instr))
    ELSE Raise(w0, "Exception")

(***************************************************************************)
(* The state of the program as one world record, and back.                 *)
(***************************************************************************)
W == [role |-> role, p |-> parser, h |-> harness, s |-> server, c |-> client,
      exc |-> "none", ret |-> FALSE]

\* the exceptions that left a top-level call, in order
Raised(w) == IF Ok(w) THEN raised ELSE Append(raised, w.exc)

SetWorld(w) ==
    /\ parser' = w.p
    /\ harness' = w.h
    /\ server' = w.s
    /\ client' = w.c
    /\ raised' = Raised(w)
    /\ net' = net

NoServer == [on |-> FALSE]
NoClient == [on |-> FALSE]
NoNet == [on |-> FALSE]

(***************************************************************************)
(* The parser alone: messages fed to _handle_input in fragments.           *)
(***************************************************************************)
\* scenario 2's request: no body (NONE)
M_get ==
    <<"G","E","T",SP,"/",SP,"H","T","T","P","/","1",".","1",CR,LF,"H","o",
      "s","t",":",SP,"x",CR,LF,CR,LF>>

\* a body of Content-Length bytes (COUNTED)
M_counted ==
    <<"P","O","S","T",SP,"/","p",SP,"H","T","T","P","/","1",".","1",CR,LF,
      "H","o","s","t",":",SP,"x",CR,LF,"C","o","n","t","e","n","t","-","L",
      "e","n","g","t","h",":",SP,"3",CR,LF,CR,LF,"a","b","c">>

\* scenario 3's request (CHUNKED)
M_chunked ==
    <<"P","O","S","T",SP,"/","p",SP,"H","T","T","P","/","1",".","1",CR,LF,
      "H","o","s","t",":",SP,"x",CR,LF,"T","r","a","n","s","f","e","r","-",
      "E","n","c","o","d","i","n","g",":",SP,"c","h","u","n","k","e","d",CR,
      LF,CR,LF,"5",CR,LF,"h","e","l","l","o",CR,LF,"0",CR,LF,CR,LF>>

\* two chunks, a chunk extension, CRLF as chunk data, a hex size, a trailer
M_chunked2 ==
    <<"P","U","T",SP,"/","q",SP,"H","T","T","P","/","1",".","1",CR,LF,"H",
      "o","s","t",":",SP,"x",CR,LF,"T","r","a","n","s","f","e","r","-","E",
      "n","c","o","d","i","n","g",":",SP,"c","h","u","n","k","e","d",CR,LF,
      CR,LF,"2",";","e",CR,LF,CR,LF,CR,LF,"A",CR,LF,"0","1","2","3","4","5",
      "6","7","8","9",CR,LF,"0",CR,LF,"X",":",SP,"y",CR,LF,CR,LF>>

\* a body that lasts until the peer closes (CLOSE)
M_close ==
    <<"H","T","T","P","/","1",".","0",SP,"2","0","0",SP,"O","K",CR,LF,"C",
      "o","n","n","e","c","t","i","o","n",":",SP,"c","l","o","s","e",CR,LF,
      CR,LF,"a","b","c">>

\* LF line ends and a folded header line
M_folded ==
    <<"G","E","T",SP,"/","f",SP,"H","T","T","P","/","1",".","0",LF,"A",":",
      SP,"b",LF,SP,"c",LF,"C","o","n","t","e","n","t","-","L","e","n","g",
      "t","h",":",SP,"1",LF,LF,"z">>

\* the longest fragment one _handle_input call is given
MaxFrag == 130

SingleMessages == {M_get, M_counted, M_chunked, M_chunked2, M_close, M_folded}

\* two messages back to back, by the delimitation of the first
DoubleMessages == {M_get \o M_get, M_counted \o M_get, M_chunked \o M_get}

\* how often _handle_input was called: 0, 1, or 2 for "more than once"
Bump(n) == IF n < 2 THEN n + 1 ELSE 2

InitParser ==
    /\ role = "rec"
    /\ parser = NewParser
    /\ harness = [events |-> <<>>, allows |-> TRUE]
    /\ server = NoServer
    /\ client = NoClient
    /\ net = NoNet
    /\ input \in SingleMessages \cup DoubleMessages
    /\ marks = {}
    /\ pos = 0
    /\ calls = 0
    /\ raised = <<>>

\* one read of n bytes (or of what is left) handed to _handle_input
Feed(n) ==
    /\ role = "rec"
    /\ pos + n <= Len(input)
    /\ LET data == SubSeq(input, pos + 1, pos + n)
           w2 == handle_input(W, data)
       IN  /\ SetWorld(w2)
           /\ pos' = pos + Len(data)
    /\ calls' = Bump(calls)
    /\ UNCHANGED <<role, input, marks>>

NextParser == \E n \in 1..MaxFrag : Feed(n)

SpecParser == InitParser /\ [][NextParser]_vars

\* the callbacks of one _handle_input call on a new parser
OneShot(m) ==
    handle_input([role |-> "rec", p |-> NewParser,
                  h |-> [events |-> <<>>, allows |-> TRUE],
                  s |-> NoServer, c |-> NoClient, exc |-> "none", ret |-> FALSE], m)

CountEvents(ev, k) == Cardinality({i \in 1..Len(ev) : ev[i].k = k})

C7_BackToBackInOneCall ==
    (role = "rec" /\ input \in DoubleMessages /\ pos = Len(input) /\ calls = 1) =>
        /\ CountEvents(harness.events, "start") = 2
        /\ CountEvents(harness.events, "end") = 2
        /\ CountEvents(harness.events, "error") = 0
        /\ raised = <<>>

(***************************************************************************)
(* A server connection: the bytes a peer sends arrive in reads that end at *)
(* the cut points of the scenario; the application answers inside the      *)
(* handler call or later; the socket takes the buffered writes.            *)
(***************************************************************************)
\* a request without Host
M_nohost ==
    <<"G","E","T",SP,"/","n",SP,"H","T","T","P","/","1",".","1",CR,LF,CR,
      LF>>

\* a request whose start line has no version
M_badline ==
    <<"B","A","D",CR,LF,"H","o","s","t",":",SP,"x",CR,LF,CR,LF>>

ServerScenarios ==
    { <<M_get, M_get>>, <<M_get, M_counted>>, <<M_chunked, M_get>>,
      <<M_get, M_nohost, M_get>>, <<M_nohost, M_get>>, <<M_badline>> }

AppHeaders == <<<<s_Content_Type, s_text_plain>>>>

Apps == [sync : BOOLEAN, hdrs : {AppHeaders}, body : {<<>>, s_hi}]

\* where the header block of message m ends
HeaderEnd(m) == hdr_end_search(m) - 1 + HdrEndLenAt(m, hdr_end_search(m))

\* the offsets at which a read may end: inside the start line, after the
\* header block and after the message, for every message of the scenario
RECURSIVE CutPoints(_, _)
CutPoints(msgs, at) ==
    IF msgs = <<>> THEN {}
    ELSE {at + 2, at + HeaderEnd(Head(msgs)), at + Len(Head(msgs))}
            \cup CutPoints(Tail(msgs), at + Len(Head(msgs)))

InitServer ==
    /\ role = "server"
    /\ parser = NewParser
    /\ harness = [events |-> <<>>, allows |-> TRUE]
    /\ \E app \in Apps : server = NewServer(app)
    /\ client = NoClient
    /\ net = NoNet
    /\ \E sc \in ServerScenarios : input = Concat(sc) /\ marks = CutPoints(sc, 0)
    /\ pos = 0
    /\ calls = 0
    /\ raised = <<>>

\* asyncore hands an exception that leaves handle_read to handle_error,
\* which treats the connection as closed by the peer
handle_error(t) == [t EXCEPT !.connected = FALSE]

\* _TcpConnection.readable
readable(t) == t.connected /\ ~t.paused

\* _TcpConnection.writable
writable(t) == t.connected /\ (Len(t.wbuf) > 0 \/ t.closing)

\* _TcpConnection.handle_read: the bytes up to cut point m are read
SrvRecv(m) ==
    /\ role = "server"
    /\ readable(server.tcp)
    /\ m \in marks /\ m > pos
    /\ LET w2 == handle_input(W, SubSeq(input, pos + 1, m))
       IN  SetWorld(IF Ok(w2) THEN w2 ELSE [w2 EXCEPT !.s.tcp = handle_error(@)])
    /\ pos' = m
    /\ calls' = Bump(calls)
    /\ UNCHANGED <<role, input, marks>>

\* how many of n bytes the socket takes
Taken(n, half) == IF half THEN (n + 1) \div 2 ELSE n

\* pause_cb as handle_write has called it
Flushed(w) == PauseCb(w, w.s.tcp.pause_sig)

\* _TcpConnection.handle_write: the socket takes all that is buffered, or half
SrvWritable(half) ==
    /\ role = "server"
    /\ writable(server.tcp)
    /\ server' = Flushed([W EXCEPT !.s.tcp = tcp_handle_write(
                                 @, Taken(Len(Concat(server.tcp.wbuf)), half))]).s
    /\ UNCHANGED <<role, parser, harness, client, net, input, marks, pos, calls, raised>>

\* the application calls the res_start its handler was given
AppResStart(id) ==
    /\ role = "server"
    /\ id \in 1..Len(server.reqs)
    /\ server.reqs[id].app = "started"
    /\ LET w2 == res_start(W, id, s_200, s_OK, server.app.hdrs)
       IN  SetWorld([w2 EXCEPT !.s.reqs[id].app = IF Ok(w2) THEN "res_start" ELSE "failed"])
    /\ UNCHANGED <<role, input, marks, pos, calls>>

\* the application calls res_body with its body
AppResBody(id) ==
    /\ role = "server"
    /\ id \in 1..Len(server.reqs)
    /\ server.reqs[id].app = "res_start"
    /\ LET w2 == res_body(W, id, server.app.body)
       IN  SetWorld([w2 EXCEPT !.s.reqs[id].app = IF Ok(w2) THEN "res_body" ELSE "failed"])
    /\ UNCHANGED <<role, input, marks, pos, calls>>

\* the application calls res_done(None)
AppResDone(id) ==
    /\ role = "server"
    /\ id \in 1..Len(server.reqs)
    /\ server.reqs[id].app \in {"res_start", "res_body"}
    /\ LET w2 == res_done(W, id, "")
       IN  SetWorld([w2 EXCEPT !.s.reqs[id].app = IF Ok(w2) THEN "done" ELSE "failed"])
    /\ UNCHANGED <<role, input, marks, pos, calls>>

NextServer ==
    \/ \E m \in marks : SrvRecv(m)
    \/ \E half \in BOOLEAN : SrvWritable(half)
    \/ \E id \in 1..Len(server.reqs) : AppResStart(id)
    \/ \E id \in 1..Len(server.reqs) : AppResBody(id)
    \/ \E id \in 1..Len(server.reqs) : AppResDone(id)

SpecServer == InitServer /\ [][NextServer]_vars

(***************************************************************************)
(* One request whose handler writes a long body while the peer is slow.    *)
(***************************************************************************)
\* how many times the handler calls res_body
MaxBodies == 18

InitPause ==
    /\ role = "server"
    /\ parser = NewParser
    /\ harness = [events |-> <<>>, allows |-> TRUE]
    /\ server = NewServer([sync |-> FALSE, hdrs |-> AppHeaders, body |-> s_hi])
    /\ client = NoClient
    /\ net = NoNet
    /\ input = M_get /\ marks = CutPoints(<<M_get>>, 0)
    /\ pos = 0
    /\ calls = 0
    /\ raised = <<>>

\* the application calls res_body once more
AppResBodyMore(id) ==
    /\ role = "server"
    /\ id \in 1..Len(server.reqs)
    /\ server.reqs[id].app = "res_body"
    /\ Len(server.writes) <= MaxBodies
    /\ SetWorld(res_body(W, id, server.app.body))
    /\ UNCHANGED <<role, input, marks, pos, calls>>

NextPause ==
    \/ \E m \in marks : SrvRecv(m)
    \/ \E half \in BOOLEAN : SrvWritable(half)
    \/ \E id \in 1..Len(server.reqs) : AppResStart(id)
    \/ \E id \in 1..Len(server.reqs) : AppResBody(id)
    \/ \E id \in 1..Len(server.reqs) : AppResBodyMore(id)
    \/ \E id \in 1..Len(server.reqs) : AppResDone(id)

SpecPause == InitPause /\ [][NextPause]_vars

\* C12: when the connection has called its pause callback with True, the
\* res_body_pause that the handler gave to res_start has been called with
\* True, and with False once the connection has called it with False
\* (stated as the claim has it; the code does not do this)
C12_PauseReachesHandler ==
    role = "server" =>
        /\ server.tcp.pause_sig = "True" =>
              (server.res_pause # <<>> /\ server.res_pause[Len(server.res_pause)])
        /\ (server.tcp.pause_sig = "False" /\ server.res_pause # <<>>) =>
              ~server.res_pause[Len(server.res_pause)]

(***************************************************************************)
(* What the application and the peer of a server connection see.           *)
(***************************************************************************)
\* the positions in the log of the calls of kind k for request id
LogAt(k, id) == {i \in 1..Len(server.log) : server.log[i].k = k /\ server.log[i].req = id}

\* the requests whose handler has been called, in the order of the calls
Handled == SelectSeq(server.log, LAMBDA e : e.k = "handler")

\* C2: requests are processed in arrival order: the handlers are called
\* once each, in the order of arrival, the handler of a request only after
\* every earlier request's res_done; and responses are written in that order,
\* no bytes of one response among or before those of an earlier one
C2_PipelineOrder ==
    role = "server" =>
        /\ \A i \in 1..Len(Handled) : \A j \in 1..Len(Handled) :
              i < j => Handled[i].req < Handled[j].req
        /\ \A id \in 1..Len(server.reqs) : \A i \in LogAt("handler", id) :
              \A earlier \in 1..(id - 1) : \E j \in LogAt("res_done", earlier) : j < i
        /\ \A i \in 1..Len(server.writes) : \A j \in 1..Len(server.writes) :
              i < j => server.writes[i].req <= server.writes[j].req

\* a request that waited in the queue behind an unfinished one was started
\* by the res_done of that one, and both have written their responses
C2_Witness ==
    /\ role = "server"
    /\ ~server.app.sync
    /\ \E i \in LogAt("handler", 2) :
          /\ i > 1 /\ server.log[i - 1].k = "res_done" /\ server.log[i - 1].req = 1
          /\ \E a \in LogAt("req_done", 1) : a < i - 1
    /\ LogAt("res_done", 2) # {}
    /\ \E i \in 1..Len(server.writes) : server.writes[i].req = 2

\* the bytes of the complete response of the synchronous application
\* with an empty body to a HTTP/1.1 request
SyncResponse ==
    join(linesep, <<s_http11 \o s_200 \o <<SP>> \o s_OK, s_Content_Type \o <<":", SP>> \o s_text_plain,
                    s_te_chunked, linesep>>) \o s_last_chunk

\* C3: two pipelined GETs received in one read and answered synchronously
\* give two complete responses in order, no exception, and an open
\* connection (stated as the claim has it; the code does not do this)
C3_TwoGetsInOneRead ==
    (/\ role = "server" /\ input = M_get \o M_get /\ pos = Len(input) /\ calls = 1
     /\ server.app.sync /\ server.app.body = <<>>) =>
        /\ raised = <<>>
        /\ server.tcp.wire \o Concat(server.tcp.wbuf) = SyncResponse \o SyncResponse
        /\ server.tcp.connected /\ ~server.tcp.closing
        /\ server.has_tcp

\* C8: a rejected request is answered with a synthetic response whenever it
\* is or becomes the head of the queue, and the queue advances; so no
\* rejected request is left at the head of the queue (stated as the claim
\* has it; the code does not do this)
C8_RejectedHeadAnswered ==
    role = "server" =>
        ~(server.queue # <<>> /\ server.reqs[Head(server.queue)].error # "")

\* C9: once the handler of a queued request is started, the end of the
\* request that arrived while it waited is delivered to it exactly once
\* (stated as the claim has it; the code does not do this)
C9_QueuedEndDelivered ==
    role = "server" =>
        \A id \in 1..Len(server.reqs) :
            (server.reqs[id].cb /\ server.reqs[id].req_done # "False") =>
                Cardinality(LogAt("req_done", id)) = 1

(***************************************************************************)
(* client.py and push_tcp.py: connecting, the idle pool, closing.          *)
(***************************************************************************)
\* how many arguments create_client hands to connect_error_handler, and how
\* many Client._handle_connect_error takes besides self
connect_error_args == 1
handle_connect_error_params == 3

\* "%s %s HTTP/1.1" and the headers req_start leaves, joined by linesep
RequestBlock(method) ==
    join(linesep, <<method \o <<SP, "/", SP>> \o Upto(s_http11, 8),
                    <<"H","o","s","t",":",SP,"x">>, s_conn_keep_alive, <<>>, <<>> >>)

\* Client._handle_connect, and the three callbacks it returns put in place
cli_handle_connect(w, k, c) ==
    [w EXCEPT !.c.cl[k].tcp = c,
              !.c.conns[c] = [tcp_write(@, RequestBlock(w.c.cl[k].method)) EXCEPT
                                 !.read_cb = k, !.close_cb = "client",
                                 !.pause_cb = TRUE]]

\* Client._handle_error
cli_handle_error(w, k, err) ==
    IF w.p.state # "WAITING" THEN Raise(w, "AssertionError")
    ELSE cli_input_end(
            CLogBody([CLog([w EXCEPT !.p.delimit = "CLOSE"], "res_start", k, s_504, "")
                         EXCEPT !.c.cl[k].cbs = TRUE],
                     k, ErrDesc(err)),
            k, err)

\* Client._handle_connect_error, called with nargs arguments
cli_handle_connect_error(w, k, nargs) ==
    IF nargs # handle_connect_error_params THEN Raise(w, "TypeError")
    ELSE cli_handle_error(w, k, "CONNECT")

\* _HttpConnectionPool.connect_timeout
connect_timeout == 3

\* a create_client as attach makes it
Dial(host, k, state) ==
    [cl |-> k, state |-> state, host |-> host, timeout |-> connect_timeout]

\* create_client.__init__ for client k; fate is what becomes of the
\* connect: in progress, refused, or failed with another error
create_client(w, host, k, fate) ==
    IF fate = "failed"      \* handle_conn_error: connect_error_handler(ex_value)
    THEN cli_handle_connect_error(
            [w EXCEPT !.c.dials = Append(@, Dial(host, k, "failed"))],
            k, connect_error_args)
    ELSE [w EXCEPT !.c.dials = Append(@, Dial(host, k, fate))]

\* _HttpConnectionPool.attach
RECURSIVE attach(_, _, _, _)

\* list.pop() on the bucket of host
Popped(w, host) == [w EXCEPT !.c.pool[host] = SubSeq(@, 1, Len(@) - 1)]

\* the last entry of the bucket handed out whether it is connected or not
attach_any(w, host, k, fate) ==
    IF ~Ok(w) THEN w
    ELSE IF w.c.pool[host] = <<>> THEN create_client(w, host, k, fate)
    ELSE cli_handle_connect(Popped(w, host), k, w.c.pool[host][Len(w.c.pool[host])])

attach(w, host, k, fate) ==
    IF ~Ok(w) THEN w
    ELSE IF w.c.pool[host] = <<>> THEN create_client(w, host, k, fate)
    ELSE IF w.c.conns[w.c.pool[host][Len(w.c.pool[host])]].connected
    THEN cli_handle_connect(Popped(w, host), k, w.c.pool[host][Len(w.c.pool[host])])
    ELSE attach(Popped(w, host), host, k, fate)

\* Client.req_start for a http URI
cli_req_start(w, k, fate) ==
    IF w.c.cl[k].req_state # "WAITING" THEN Raise(w, "AssertionError")
    ELSE attach([w EXCEPT !.c.cl[k].req_state = "HEADERS_DONE", !.c.cl[k].asked = TRUE],
                w.c.cl[k].host, k, fate)

\* how many arguments req_start hands to _handle_error, and how many
\* Client._handle_error takes besides self
req_start_error_args == 1
handle_error_params == 2

\* the schemes and the ports after the last colon of the authority ("" for
\* an authority without a colon) of the URIs given to req_start
Schemes == {"http", "HTTP", "https"}
Ports == {"", "80", "x"}

\* scheme.lower()
SchemeLower(scheme) == IF scheme = "HTTP" THEN "http" ELSE scheme

\* int(port) does not raise ValueError
PortIsInt(port) == port = "80"

\* the URI is one that req_start goes on with
UriWellFormed(scheme, port) ==
    SchemeLower(scheme) = "http" /\ (port = "" \/ PortIsInt(port))

\* self._handle_error(ERR_URL) as req_start calls it
cli_req_start_error(w, k) ==
    IF req_start_error_args # handle_error_params THEN Raise(w, "TypeError")
    ELSE cli_handle_error(w, k, "URL")

\* Client.req_start
cli_req_start_uri(w, k, scheme, port, fate) ==
    IF w.c.cl[k].req_state # "WAITING" THEN Raise(w, "AssertionError")
    ELSE IF ~UriWellFormed(scheme, port)
    THEN cli_req_start_error([w EXCEPT !.c.cl[k].asked = TRUE], k)
    ELSE cli_req_start(w, k, fate)

\* Client.req_done
cli_req_done(w, k) ==
    IF w.c.cl[k].req_state # "HEADERS_DONE" THEN Raise(w, "AssertionError")
    ELSE [w EXCEPT !.c.cl[k].req_state = "WAITING"]

\* Client._conn_closed after "if self._input_buffer: self._handle_input('')"
ConnClosed(w, k, fate) ==
    IF ~Ok(w) THEN w
    ELSE IF w.p.state = "WAITING" THEN w
    ELSE IF w.p.delimit = "CLOSE"
    THEN cli_input_end([w EXCEPT !.p.state = "WAITING"], k, "")
    ELSE IF /\ InList(w.c.cl[k].method, idempotent_methods)
            /\ w.c.cl[k].retries < retry_limit
            /\ w.p.state = "WAITING"
    THEN attach([w EXCEPT !.c.cl[k].retries = @ + 1],
                w.c.conns[w.c.cl[k].tcp].host, k, fate)
    ELSE cli_input_end(w, k, "CONNECT")

\* Client._conn_closed
cli_conn_closed(w, k, fate) ==
    ConnClosed(IF w.p.buf # <<>> THEN handle_input(w, <<>>) ELSE w, k, fate)

\* list.remove(x): the first occurrence goes; ValueError (passed over) if none
Remove(list, x) ==
    IF InList(x, list)
    THEN SubSeq(list, 1, IndexOf(list, x) - 1) \o From(list, IndexOf(list, x))
    ELSE list

\* _TcpConnection.conn_closed of connection c
conn_closed(w, c, fate) ==
    IF w.c.conns[c].close_cb_called \/ w.c.conns[c].close_cb = "none"
    THEN [w EXCEPT !.c.conns[c].connected = FALSE]
    ELSE IF w.c.conns[c].close_cb = "idle"                       \* idle_close
    THEN [w EXCEPT !.c.conns[c].connected = FALSE,
                   !.c.conns[c].close_cb_called = TRUE,
                   !.c.pool[w.c.conns[c].host] = Remove(@, c)]
    ELSE cli_conn_closed([w EXCEPT !.c.conns[c].connected = FALSE,
                                   !.c.conns[c].close_cb_called = TRUE],
                         w.c.conns[c].read_cb, fate)

(***************************************************************************)
(* Two clients of one host.  The bytes of input are what the server sends  *)
(* on the first connection made, whenever it sends them.                   *)
(***************************************************************************)
\* a counted body on a connection that can be used again
R_counted ==
    <<"H","T","T","P","/","1",".","1",SP,"2","0","0",SP,"O","K",CR,LF,"C","o",
      "n","t","e","n","t","-","L","e","n","g","t","h",":",SP,"2",CR,LF,CR,LF,
      "h","i">>

\* a chunked body
R_chunked ==
    <<"H","T","T","P","/","1",".","1",SP,"2","0","0",SP,"O","K",CR,LF,"T","r",
      "a","n","s","f","e","r","-","E","n","c","o","d","i","n","g",":",SP,"c",
      "h","u","n","k","e","d",CR,LF,CR,LF,"2",CR,LF,"h","i",CR,LF,"0",CR,LF,
      CR,LF>>

\* a body that the close of the connection ends
R_close ==
    <<"H","T","T","P","/","1",".","1",SP,"2","0","0",SP,"O","K",CR,LF,"C","o",
      "n","n","e","c","t","i","o","n",":",SP,"c","l","o","s","e",CR,LF,CR,LF,
      "h","i">>

\* no body
R_204 ==
    <<"H","T","T","P","/","1",".","1",SP,"2","0","4",SP,"N","o",CR,LF,CR,LF>>

\* an interim response
R_100 ==
    <<"H","T","T","P","/","1",".","1",SP,"1","0","0",SP,"C","o",CR,LF,CR,LF>>

\* a counted body in a response that asks for the connection to be closed
R_last ==
    <<"H","T","T","P","/","1",".","1",SP,"2","0","0",SP,"O","K",CR,LF,"C","o",
      "n","n","e","c","t","i","o","n",":",SP,"c","l","o","s","e",CR,LF,"C","o",
      "n","t","e","n","t","-","L","e","n","g","t","h",":",SP,"2",CR,LF,CR,LF,
      "h","i">>

\* a status line that cannot be parsed
R_badline == <<"B","A","D",CR,LF,CR,LF>>

\* a chunk size that is no number
R_badchunk ==
    <<"H","T","T","P","/","1",".","1",SP,"2","0","0",SP,"O","K",CR,LF,"T","r",
      "a","n","s","f","e","r","-","E","n","c","o","d","i","n","g",":",SP,"c",
      "h","u","n","k","e","d",CR,LF,CR,LF,"z",CR,LF>>

ClientScenarios ==
    { <<R_counted, R_counted>>, <<R_chunked>>, <<R_close>>, <<R_204, R_counted>>,
      <<R_badline>>, <<R_badchunk>>, <<R_100, R_last>> }

Fates == {"pending", "refused", "failed"}

InitClient ==
    /\ role = "client"
    /\ parser = <<NewParser, NewParser>>
    /\ harness = [events |-> <<>>, allows |-> TRUE]
    /\ server = NoServer
    /\ net = NoNet
    /\ \E m \in {m_GET, m_POST} :
          client = [on |-> TRUE, cur |-> 0, cl |-> <<NewClient(m), NewClient(m_GET)>>,
                    conns |-> <<>>, pool |-> [h \in Hosts |-> <<>>],
                    pool0 |-> [h \in Hosts |-> <<>>],
                    dials |-> <<>>, log |-> <<>>,
                    running |-> TRUE, swallowed |-> <<>>]
    /\ \E sc \in ClientScenarios : input = Concat(sc) /\ marks = CutPoints(sc, 0)
    /\ pos = 0
    /\ calls = 0
    /\ raised = <<>>

\* the world in which client k's own parser is driven
CW(k) == [W EXCEPT !.p = parser[k], !.c.cur = k]

SetClientWorld(w, k) ==
    /\ parser' = [parser EXCEPT ![k] = w.p]
    /\ client' = [w.c EXCEPT !.cur = 0, !.swallowed = <<>>]
    /\ raised' = IF Ok(w) THEN raised \o w.c.swallowed
                 ELSE Append(raised \o w.c.swallowed, w.exc)
    /\ UNCHANGED <<harness, server, net>>

\* the application calls req_start on client k
CliReqStart(k, fate) ==
    /\ role = "client"
    /\ k \in 1..Len(client.cl)
    /\ ~client.cl[k].asked
    /\ SetClientWorld(cli_req_start(CW(k), k, fate), k)
    /\ UNCHANGED <<role, input, marks, pos, calls>>

\* the application calls req_done on client k
CliReqDone(k) ==
    /\ role = "client"
    /\ k \in 1..Len(client.cl)
    /\ client.cl[k].req_state = "HEADERS_DONE"
    /\ SetClientWorld(cli_req_done(CW(k), k), k)
    /\ UNCHANGED <<role, input, marks, pos, calls>>

\* create_client.handle_connect: the connect of dial j has succeeded
Connected(j) ==
    /\ role = "client"
    /\ client.running
    /\ j \in 1..Len(client.dials)
    /\ client.dials[j].state = "pending"
    /\ LET k == client.dials[j].cl
           w == [CW(k) EXCEPT !.c.dials[j].state = "connected",
                              !.c.conns = Append(@, [NewConn EXCEPT
                                                       !.host = client.dials[j].host])]
       IN  SetClientWorld(cli_handle_connect(w, k, Len(w.c.conns)), k)
    /\ UNCHANGED <<role, input, marks, pos, calls>>

\* the event scheduled for connect_timeout runs: it calls
\* connect_error_handler with the one tuple it was given; what it raises
\* leaves the loop
ConnectTimeout(j) ==
    /\ role = "client"
    /\ client.running
    /\ j \in 1..Len(client.dials)
    /\ client.dials[j].state = "pending"
    /\ LET k == client.dials[j].cl
           w == cli_handle_connect_error([CW(k) EXCEPT !.c.dials[j].state = "timeout"],
                                         k, connect_error_args)
       IN  SetClientWorld([w EXCEPT !.c.running = Ok(w)], k)
    /\ UNCHANGED <<role, input, marks, pos, calls>>

\* read_cb(data), and asyncore's handle_error -> conn_closed if it raises
ReadCb(w, c, fate) ==
    IF Ok(w) THEN w
    ELSE conn_closed([w EXCEPT !.exc = "none", !.c.swallowed = Append(@, w.exc)], c, fate)

\* what the call of read_cb on connection c is logged as
ReadEv(c) ==
    [CliEv("read_cb", client.conns[c].read_cb, <<>>, "") EXCEPT
        !.idle = InList(c, client.pool[client.conns[c].host])]

\* _TcpConnection.handle_read on the first connection: bytes up to cut m
CliRecv(m, fate) ==
    /\ role = "client"
    /\ client.running
    /\ Len(client.conns) >= 1
    /\ readable(client.conns[1]) /\ client.conns[1].read_cb # 0
    /\ m \in marks /\ m > pos
    /\ LET k == client.conns[1].read_cb
           w == handle_input([CW(k) EXCEPT !.c.log = Append(@, ReadEv(1))],
                             SubSeq(input, pos + 1, m))
       IN  SetClientWorld(ReadCb(w, 1, fate), k)
    /\ pos' = m
    /\ calls' = Bump(calls)
    /\ UNCHANGED <<role, input, marks>>

\* _TcpConnection.handle_read with nothing to read: the peer has closed
CliPeerClose(c, fate) ==
    /\ role = "client"
    /\ client.running
    /\ c \in 1..Len(client.conns)
    /\ readable(client.conns[c]) /\ client.conns[c].read_cb # 0
    /\ SetClientWorld(conn_closed(CW(client.conns[c].read_cb), c, fate),
                      client.conns[c].read_cb)
    /\ UNCHANGED <<role, input, marks, pos, calls>>

\* _TcpConnection.handle_write on connection c: the socket takes it all
CliWritable(c) ==
    /\ role = "client"
    /\ client.running
    /\ c \in 1..Len(client.conns)
    /\ writable(client.conns[c])
    /\ client' = [client EXCEPT
                    !.conns[c] = tcp_handle_write(@, Len(Concat(client.conns[c].wbuf)))]
    /\ UNCHANGED <<role, parser, harness, server, net, input, marks, pos, calls, raised>>

NextClient ==
    \/ \E k \in 1..2, fate \in Fates : CliReqStart(k, fate)
    \/ \E k \in 1..2 : CliReqDone(k)
    \/ \E j \in 1..Len(client.dials) : Connected(j)
    \/ \E j \in 1..Len(client.dials) : ConnectTimeout(j)
    \/ \E m \in marks, fate \in Fates : CliRecv(m, fate)
    \/ \E c \in 1..Len(client.conns), fate \in Fates : CliPeerClose(c, fate)
    \/ \E c \in 1..Len(client.conns) : CliWritable(c)

SpecClient == InitClient /\ [][NextClient]_vars

(***************************************************************************)
(* What the application of a client sees.                                  *)
(***************************************************************************)
\* the positions in the log of the calls of kind k made for client cl
CLogAt(k, cl) ==
    {i \in 1..Len(client.log) : client.log[i].k = k /\ client.log[i].cl = cl}

\* the peer has closed connection c while client k owned it
PeerClosed(c, k) ==
    /\ client.conns[c].read_cb = k
    /\ client.conns[c].close_cb = "client"
    /\ client.conns[c].close_cb_called
    /\ ~client.conns[c].connected

\* the connect made for client k has failed or has timed out
ConnectFailed(k) ==
    \E j \in 1..Len(client.dials) :
        client.dials[j].cl = k /\ client.dials[j].state \in {"failed", "timeout"}

\* C4: res_end_cb is called exactly once for every req_start: never twice,
\* and once when the connect has failed or timed out or the peer has
\* closed the connection (stated as the claim has it; the code does not do this)
C4_ResEndExactlyOnce ==
    role = "client" =>
        \A k \in 1..Len(client.cl) :
            /\ Cardinality(CLogAt("res_end", k)) <= 1
            /\ (ConnectFailed(k) \/ \E c \in 1..Len(client.conns) : PeerClosed(c, k))
                  => Cardinality(CLogAt("res_end", k)) = 1

\* C5: when the peer has closed the connection of a client before any
\* response byte, the request has been retried if its method is idempotent
\* (the counter counts the retry); in the other cases of a close before the
\* response is complete the CONNECT error has been given to res_end_cb
\* (stated as the claim has it; the code does not do this)
C5_RetryOnPeerClose ==
    role = "client" =>
        \A k \in 1..Len(client.cl) : \A c \in 1..Len(client.conns) :
            (PeerClosed(c, k) /\ CLogAt("res_start", k) = {}) =>
                IF InList(client.cl[k].method, idempotent_methods)
                THEN client.cl[k].retries >= 1
                ELSE \E i \in CLogAt("res_end", k) : client.log[i].err = "CONNECT"

\* C6: a GET whose connect has failed has been retried exactly 2 times and
\* has then got one synthetic response: one res_start, one res_end with the
\* CONNECT error (stated as the claim has it; the code does not do this)
C6_ConnectRetriedTwice ==
    role = "client" =>
        \A k \in 1..Len(client.cl) :
            (ConnectFailed(k) /\ client.cl[k].method = m_GET) =>
                /\ client.cl[k].retries = retry_limit
                /\ Cardinality(CLogAt("res_start", k)) = 1
                /\ \E i \in CLogAt("res_end", k) : client.log[i].err = "CONNECT"
                /\ Cardinality(CLogAt("res_end", k)) = 1

\* C10: no read callback runs on a connection while it is an entry of the
\* idle pool, and a connection the peer has closed is not in the pool
\* (stated as the claim has it; the code does not do this)
C10_IdleEntryNotRead ==
    role = "client" =>
        /\ \A i \in 1..Len(client.log) :
              client.log[i].k = "read_cb" => ~client.log[i].idle
        /\ \A h \in Hosts : \A i \in 1..Len(client.pool[h]) :
              client.conns[client.pool[h][i]].connected

\* the latest call made to the application is res_end for client k with no
\* error
CleanEnd(k) ==
    /\ client.log # <<>>
    /\ client.log[Len(client.log)].k = "res_end"
    /\ client.log[Len(client.log)].cl = k
    /\ client.log[Len(client.log)].err = ""

\* C18: when a response has ended with no error and the client's connection
\* is in the idle pool, the headers of that response marked it reusable
\* (version above 1.0 without the close token, or 1.0 with keep-alive); a
\* response that was not so marked leaves the client without a connection
C18_PooledOnlyIfReusable ==
    role = "client" =>
        \A k \in 1..Len(client.cl) :
            (CleanEnd(k) /\ ~client.cl[k].marked) =>
                /\ client.cl[k].tcp = 0
                /\ \A h \in Hosts : \A i \in 1..Len(client.pool[h]) :
                      client.conns[client.pool[h][i]].read_cb # k

(***************************************************************************)
(* Responses that must not have a body: a HEAD or a GET, answered with a   *)
(* header block that announces two bytes of body.                          *)
(***************************************************************************)
\* the header block of R_counted, as the answer to a HEAD would be
R_head == SubSeq(R_counted, 1, Len(R_counted) - 2)

\* a 204 that carries a Content-Length all the same
R_204_len ==
    <<"H","T","T","P","/","1",".","1",SP,"2","0","4",SP,"N","o",CR,LF,"C","o",
      "n","t","e","n","t","-","L","e","n","g","t","h",":",SP,"2",CR,LF,CR,LF,
      "h","i">>

HeadScenarios == { <<R_head>>, <<R_204_len>>, <<R_counted>> }

InitHead ==
    /\ role = "client"
    /\ parser = <<NewParser, NewParser>>
    /\ harness = [events |-> <<>>, allows |-> TRUE]
    /\ server = NoServer
    /\ net = NoNet
    /\ \E m \in {m_GET, m_HEAD} :
          client = [on |-> TRUE, cur |-> 0, cl |-> <<NewClient(m), NewClient(m_GET)>>,
                    conns |-> <<>>, pool |-> [h \in Hosts |-> <<>>],
                    pool0 |-> [h \in Hosts |-> <<>>],
                    dials |-> <<>>, log |-> <<>>,
                    running |-> TRUE, swallowed |-> <<>>]
    /\ \E sc \in HeadScenarios : input = Concat(sc) /\ marks = CutPoints(sc, 0)
    /\ pos = 0
    /\ calls = 0
    /\ raised = <<>>

SpecHead == InitHead /\ [][NextClient]_vars

\* the status codes that res_start_cb has been given for client k, in order
RECURSIVE Codes(_, _)
Codes(k, i) ==
    IF i = 0 THEN <<>>
    ELSE IF client.log[i].k = "res_start" /\ client.log[i].cl = k
    THEN Append(Codes(k, i - 1), client.log[i].data)
    ELSE Codes(k, i - 1)

\* the latest response of client k was one that has no body: its status is
\* 100, 101, 204 or 304, or the request was a HEAD
Bodiless(k) ==
    /\ Codes(k, Len(client.log)) # <<>>
    /\ \/ client.cl[k].method = m_HEAD
       \/ InList(Codes(k, Len(client.log))[Len(Codes(k, Len(client.log)))],
                 no_body_status)

\* C19: a response to a HEAD, or one with status 100, 101, 204 or 304, is
\* delimited NONE whatever its Content-Length and Transfer-Encoding, and
\* the body callback is not called for it
C19_NoBodyForHeadAndBodilessStatus ==
    role = "client" =>
        \A k \in 1..Len(client.cl) :
            Bodiless(k) =>
                /\ parser[k].delimit = "NONE"
                /\ client.log[Len(client.log)].k # "res_body"

(***************************************************************************)
(* The delimitation of a message by its header block: one header block    *)
(* with up to two of Transfer-Encoding, Content-Length and Connection, in  *)
(* every combination, given to a parser whose _input_start allows a body   *)
(* or does not.  harness.te, harness.cl and harness.conn keep what the     *)
(* block was built from.                                                   *)
(***************************************************************************)
TeChoices == {"none", "chunked", "gzip", "gzip,chunked"}
ClChoices == {"none", "0", "2", "x"}
ConnChoices == {"none", "close"}

\* the value of a header as bytes
FieldValue(v) ==
    CASE v = "chunked" -> <<"c","h","u","n","k","e","d">>
      [] v = "gzip" -> <<"g","z","i","p">>
      [] v = "gzip,chunked" -> <<"g","z","i","p",",","c","h","u","n","k","e","d">>
      [] v = "close" -> <<"c","l","o","s","e">>
      [] OTHER -> <<v>>

\* a header line, or nothing when the header is left out
FieldLine(name, v) ==
    IF v = "none" THEN <<>> ELSE name \o <<":", SP>> \o FieldValue(v) \o <<CR, LF>>

n_transfer_encoding ==
    <<"T","r","a","n","s","f","e","r","-","E","n","c","o","d","i","n","g">>
n_content_length == <<"C","o","n","t","e","n","t","-","L","e","n","g","t","h">>
n_connection == <<"C","o","n","n","e","c","t","i","o","n">>

\* the header block; first says whether Content-Length comes before
\* Transfer-Encoding
Block(te, cl, conn, first) ==
    <<"G","E","T",SP,"/",SP,"H","T","T","P","/","1",".","1",CR,LF>>
    \o (IF first THEN FieldLine(n_content_length, cl) \o FieldLine(n_transfer_encoding, te)
        ELSE FieldLine(n_transfer_encoding, te) \o FieldLine(n_content_length, cl))
    \o FieldLine(n_connection, conn) \o <<CR, LF>>

InitDelimit ==
    /\ role = "rec"
    /\ parser = NewParser
    /\ server = NoServer
    /\ client = NoClient
    /\ net = NoNet
    /\ \E te \in TeChoices, cl \in ClChoices, conn \in ConnChoices,
          first \in BOOLEAN, allows \in BOOLEAN :
          /\ te = "none" \/ cl = "none" \/ conn = "none"
          /\ harness = [events |-> <<>>, allows |-> allows, te |-> te, cl |-> cl,
                        conn |-> conn]
          /\ input = Block(te, cl, conn, first)
    /\ marks = {}
    /\ pos = 0
    /\ calls = 0
    /\ raised = <<>>

SpecDelimit == InitDelimit /\ [][NextParser]_vars

\* the header block has been parsed
BlockParsed == role = "rec" /\ harness.events # <<>> /\ harness.events[1].k = "start"

\* the delimitation that the headers of the block call for
Expected ==
    IF ~harness.allows THEN "NONE"
    ELSE IF harness.te # "none"
    THEN IF harness.te \in {"chunked", "gzip,chunked"} THEN "CHUNKED" ELSE "CLOSE"
    ELSE IF harness.cl \in {"0", "2"} THEN "COUNTED"
    ELSE IF harness.conn = "close" THEN "CLOSE"
    ELSE "NONE"

\* C20: once the header block is parsed the delimitation is NONE if
\* _input_start did not allow a body; else CHUNKED if Transfer-Encoding is
\* there and holds chunked, CLOSE if it is there without it; else COUNTED
\* with as many bytes left as Content-Length says; else CLOSE if Connection
\* holds close; else NONE.  Content-Length counts for nothing when
\* Transfer-Encoding is there.
C20_DelimitationOrder ==
    BlockParsed =>
        /\ parser.delimit = Expected
        /\ Expected = "COUNTED" =>
              parser.left = (IF harness.cl = "2" THEN 2 ELSE 0)

\* a block with both Transfer-Encoding: chunked and Content-Length: 2 has
\* been parsed for a message that may have a body
C20_Witness ==
    /\ BlockParsed /\ harness.allows
    /\ harness.te = "chunked" /\ harness.cl = "2"
    /\ parser.delimit = "CHUNKED"

(***************************************************************************)
(* attach on a pool that holds idle connections to two hosts, some of      *)
(* them no longer connected.  client.pool0 keeps the pool as it was before *)
(* the one req_start of the behaviour.                                     *)
(***************************************************************************)
\* how many connections there are
PoolConns == 3

\* a connection that a finished client (2) has released to the pool; one
\* that is not alive has been closed since
Pooled(host, alive) ==
    [NewConn EXCEPT !.host = host, !.read_cb = 2, !.close_cb = "idle",
                    !.pause_cb = TRUE, !.connected = alive, !.open = alive,
                    !.paused = ~alive]

\* the members of in that are connections to host, by rising or by falling
\* number
RECURSIVE Bucket(_, _, _, _, _)
Bucket(conns, in, host, up, c) ==
    IF c > Len(conns) THEN <<>>
    ELSE IF c \in in /\ conns[c].host = host
    THEN IF up THEN <<c>> \o Bucket(conns, in, host, up, c + 1)
         ELSE Bucket(conns, in, host, up, c + 1) \o <<c>>
    ELSE Bucket(conns, in, host, up, c + 1)

\* a client that has had its response
Finished == [NewClient(m_GET) EXCEPT !.asked = TRUE, !.cbs = TRUE, !.conn_reusable = TRUE]

InitPool ==
    /\ role = "client"
    /\ parser = <<NewParser, NewParser>>
    /\ harness = [events |-> <<>>, allows |-> TRUE]
    /\ server = NoServer
    /\ net = NoNet
    /\ \E hs \in [1..PoolConns -> Hosts], alive \in [1..PoolConns -> BOOLEAN],
          in \in SUBSET (1..PoolConns), up \in BOOLEAN, host \in Hosts :
          LET conns == [c \in 1..PoolConns |-> Pooled(hs[c], alive[c])]
              pool == [h \in Hosts |-> Bucket(conns, in, h, up, 1)]
          IN  client = [on |-> TRUE, cur |-> 0,
                        cl |-> <<[NewClient(m_GET) EXCEPT !.host = host], Finished>>,
                        conns |-> conns, pool |-> pool, pool0 |-> pool,
                        dials |-> <<>>, log |-> <<>>, running |-> TRUE,
                        swallowed |-> <<>>]
    /\ input = <<>>
    /\ marks = {}
    /\ pos = 0
    /\ calls = 0
    /\ raised = <<>>

NextPool == \E fate \in Fates : CliReqStart(1, fate)

SpecPool == InitPool /\ [][NextPool]_vars

\* the places in bucket b of entries that are connected
Live(b) == {i \in 1..Len(b) : client.conns[b[i]].connected}

\* the greatest member of a non-empty set of numbers
Max(S) == CHOOSE x \in S : \A y \in S : y <= x

\* C17: after attach for client 1, whose URI names host h: if the bucket of
\* h held a connected entry, the client has the last such entry, with its
\* callbacks in place, and that entry and the disconnected ones behind it
\* have left the bucket; if it held none, the bucket is empty and a connect
\* to h with a timeout of 3 s has been started; the client never has a
\* disconnected connection or one to another host, and the buckets of other
\* hosts are as they were
C17_AttachHandsOutLive ==
    (role = "client" /\ client.cl[1].asked) =>
        LET h == client.cl[1].host
            b0 == client.pool0[h]
            c == client.cl[1].tcp
        IN  /\ \A g \in Hosts \ {h} : client.pool[g] = client.pool0[g]
            /\ c # 0 => client.conns[c].connected /\ client.conns[c].host = h
            /\ IF Live(b0) # {}
               THEN /\ c = b0[Max(Live(b0))]
                    /\ client.pool[h] = SubSeq(b0, 1, Max(Live(b0)) - 1)
                    /\ client.conns[c].read_cb = 1
                    /\ client.conns[c].close_cb = "client"
                    /\ client.conns[c].wbuf = <<RequestBlock(m_GET)>>
                    /\ client.dials = <<>>
               ELSE /\ client.pool[h] = <<>>
                    /\ Len(client.dials) = 1
                    /\ client.dials[1].host = h /\ client.dials[1].cl = 1
                    /\ client.dials[1].timeout = 3
                    /\ c = 0

\* attach has passed over a disconnected entry and handed out a connected
\* one, with a connection to the other host idle as well
C17_Witness ==
    /\ role = "client" /\ client.cl[1].asked /\ client.cl[1].tcp # 0
    /\ Len(client.pool0[client.cl[1].host]) = 2
    /\ client.pool[client.cl[1].host] = <<>>
    /\ client.pool0[client.cl[1].host][1] = client.cl[1].tcp
    /\ \E g \in Hosts \ {client.cl[1].host} : client.pool0[g] # <<>>

(***************************************************************************)
(* push_tcp.py without HTTP above it: two connections of one loop, each    *)
(* with a peer, and an application that is free in what its callbacks do.  *)
(*   net.conns   the _TcpConnection objects                                *)
(*   net.peer    per connection: the segments the peer has sent that are   *)
(*               not yet received, how many it has sent, whether it has    *)
(*               closed                                                    *)
(*   net.seen    per connection, what the application has seen: the calls  *)
(*               of read_cb, whether one came while the connection was     *)
(*               paused, the calls of close_cb                             *)
(*   net.rready, net.wready   the connections that the poll of this cycle  *)
(*               found readable and writable and has not yet served        *)
(*   net.events  per connection, the scheduled calls of conn_closed        *)
(*   net.dial    a create_client and the calls of its two handlers         *)
(***************************************************************************)
\* how many segments a peer sends on one connection
MaxData == 2

DataChunk == <<"d">>

NewPeer == [inbox |-> 0, sent |-> 0, closed |-> FALSE]

NewSeen == [reads |-> 0, read_paused |-> FALSE, close_calls |-> 0]

\* a connection whose conn_handler has returned: read_cb and pause_cb are in
\* place, close_cb is in place if the handler returned one
Accepted(close_cb) ==
    [NewConn EXCEPT !.read_cb = 1, !.pause_cb = TRUE, !.close_cb = close_cb]

\* close_cb being called twice where the code calls it once
tcp_conn_closed_again(n, c) ==
    IF n.conns[c].close_cb # "none"
    THEN [n EXCEPT !.conns[c].connected = FALSE,
                   !.conns[c].close_cb_called = TRUE,
                   !.seen[c].close_calls = @ + 1]
    ELSE [n EXCEPT !.conns[c].connected = FALSE, !.events[c] = @ + 1]

\* _TcpConnection.conn_closed of connection c
tcp_conn_closed(n, c) ==
    IF n.conns[c].close_cb_called THEN [n EXCEPT !.conns[c].connected = FALSE]
    ELSE IF n.conns[c].close_cb # "none"
    THEN [n EXCEPT !.conns[c].connected = FALSE,
                   !.conns[c].close_cb_called = TRUE,
                   !.seen[c].close_calls = @ + 1]
    ELSE [n EXCEPT !.conns[c].connected = FALSE,               \* schedule(1, ...)
                   !.events[c] = @ + 1]

\* what a read callback of the application may do
Does == {"nothing", "pause_self", "pause_other", "close_other", "write"}

Other(c) == 3 - c

\* the application's read_cb on connection c, doing what does says
app_read_cb(n, c, does) ==
    LET n1 == [n EXCEPT !.seen[c].reads = @ + 1,
                        !.seen[c].read_paused = @ \/ n.conns[c].paused]
    IN  IF does = "pause_self" THEN [n1 EXCEPT !.conns[c] = pause(@, TRUE)]
        ELSE IF does = "pause_other" THEN [n1 EXCEPT !.conns[Other(c)] = pause(@, TRUE)]
        ELSE IF does = "close_other" THEN [n1 EXCEPT !.conns[Other(c)] = tcp_close(@)]
        ELSE IF does = "write" THEN [n1 EXCEPT !.conns[c] = tcp_write(@, DataChunk)]
        ELSE n1

\* _TcpConnection.handle_read of connection c: recv gives the oldest
\* segment, or "" when the peer has closed and nothing is left
tcp_handle_read(n, c, does) ==
    IF n.peer[c].inbox = 0 THEN tcp_conn_closed(n, c)
    ELSE app_read_cb([n EXCEPT !.peer[c].inbox = @ - 1], c, does)

\* create_client.__init__ with a connect_timeout; fate is what the connect
\* call does: in progress, ECONNREFUSED, or another error
NewDial(fate) ==
    IF fate = "failed"
    THEN [state |-> "failed", timeout_ev |-> FALSE, error_sent |-> TRUE,
          conn_calls |-> 0, err_calls |-> 1]
    ELSE [state |-> fate, timeout_ev |-> fate = "pending", error_sent |-> FALSE,
          conn_calls |-> 0, err_calls |-> 0]

\* create_client.handle_connect
dial_handle_connect(d) ==
    IF d.error_sent THEN [d EXCEPT !.timeout_ev = FALSE]
    ELSE [d EXCEPT !.timeout_ev = FALSE, !.state = "connected", !.conn_calls = @ + 1]

\* the event that __init__ scheduled: connect_error_handler(ETIMEDOUT, ...)
dial_timeout(d) == [d EXCEPT !.timeout_ev = FALSE, !.err_calls = @ + 1]

InitTcp ==
    /\ role = "tcp"
    /\ parser = NewParser
    /\ harness = [events |-> <<>>, allows |-> TRUE]
    /\ server = NoServer
    /\ client = NoClient
    /\ \E cb \in {"none", "app"}, fate \in Fates :
          net = [on |-> TRUE,
                 conns |-> <<Accepted(cb), Accepted("app")>>,
                 peer |-> <<NewPeer, NewPeer>>,
                 seen |-> <<NewSeen, NewSeen>>,
                 rready |-> {}, wready |-> {},
                 events |-> <<0, 0>>,
                 dial |-> NewDial(fate)]
    /\ input = <<>>
    /\ marks = {}
    /\ pos = 0
    /\ calls = 0
    /\ raised = <<>>

\* asyncore.poll: which connections are readable and have something to
\* receive, which are writable; the socket of a writable one takes data
Poll ==
    /\ role = "tcp"
    /\ net.rready = {} /\ net.wready = {}
    /\ LET r == {c \in 1..2 : /\ net.conns[c].open
                              /\ net.conns[c].read_cb # 0 /\ readable(net.conns[c])
                              /\ (net.peer[c].inbox > 0 \/ net.peer[c].closed)}
           w == {c \in 1..2 : net.conns[c].open /\ writable(net.conns[c])}
       IN  /\ r \cup w # {}
           /\ net' = [net EXCEPT !.rready = r, !.wready = w]
    /\ UNCHANGED <<role, parser, harness, server, client, input, marks, pos, calls, raised>>

\* the loop serves a connection found readable, unless it has been closed
\* from this side in the meantime
TcpRead(c, does) ==
    /\ role = "tcp"
    /\ c \in net.rready
    /\ LET n == [net EXCEPT !.rready = @ \ {c}]
       IN  net' = IF net.conns[c].open THEN tcp_handle_read(n, c, does) ELSE n
    /\ UNCHANGED <<role, parser, harness, server, client, input, marks, pos, calls, raised>>

\* the loop serves a connection found writable, after the readable ones;
\* the send fails (EPIPE) or not when the peer has closed
TcpWrite(c, fails) ==
    /\ role = "tcp"
    /\ net.rready = {} /\ c \in net.wready
    /\ fails => net.peer[c].closed
    /\ LET n == [net EXCEPT !.wready = @ \ {c}]
       IN  net' = IF ~net.conns[c].open THEN n
                  ELSE IF fails /\ Len(net.conns[c].wbuf) > 0 THEN tcp_conn_closed(n, c)
                  ELSE [n EXCEPT !.conns[c] =
                                    tcp_handle_write(@, Len(Concat(net.conns[c].wbuf)))]
    /\ UNCHANGED <<role, parser, harness, server, client, input, marks, pos, calls, raised>>

\* a scheduled conn_closed runs, at the top of the loop
TcpEvent(c) ==
    /\ role = "tcp"
    /\ net.rready = {} /\ net.wready = {}
    /\ net.events[c] > 0
    /\ net' = tcp_conn_closed([net EXCEPT !.events[c] = @ - 1], c)
    /\ UNCHANGED <<role, parser, harness, server, client, input, marks, pos, calls, raised>>

\* the application, from a timer, lets a paused connection read again
AppUnpause(c) ==
    /\ role = "tcp"
    /\ net.rready = {} /\ net.wready = {}
    /\ net.conns[c].paused /\ net.conns[c].open
    /\ net' = [net EXCEPT !.conns[c] = pause(@, FALSE)]
    /\ UNCHANGED <<role, parser, harness, server, client, input, marks, pos, calls, raised>>

\* the application puts a close_cb in place after its conn_handler returned
SetCloseCb(c) ==
    /\ role = "tcp"
    /\ net.rready = {} /\ net.wready = {}
    /\ net.conns[c].close_cb = "none"
    /\ net' = [net EXCEPT !.conns[c].close_cb = "app"]
    /\ UNCHANGED <<role, parser, harness, server, client, input, marks, pos, calls, raised>>

\* the peer of connection c sends a segment
PeerSend(c) ==
    /\ role = "tcp"
    /\ ~net.peer[c].closed /\ net.peer[c].sent < MaxData
    /\ net' = [net EXCEPT !.peer[c].inbox = @ + 1, !.peer[c].sent = @ + 1]
    /\ UNCHANGED <<role, parser, harness, server, client, input, marks, pos, calls, raised>>

\* the peer of connection c closes
PeerClose(c) ==
    /\ role = "tcp"
    /\ ~net.peer[c].closed
    /\ net' = [net EXCEPT !.peer[c].closed = TRUE]
    /\ UNCHANGED <<role, parser, harness, server, client, input, marks, pos, calls, raised>>

\* the socket of the create_client becomes writable: handle_connect
DialConnect ==
    /\ role = "tcp"
    /\ net.dial.state \in {"pending", "failed"}
    /\ net' = [net EXCEPT !.dial = dial_handle_connect(@)]
    /\ UNCHANGED <<role, parser, harness, server, client, input, marks, pos, calls, raised>>

\* connect_timeout has passed and the scheduled event runs
DialTimeout ==
    /\ role = "tcp"
    /\ net.dial.timeout_ev
    /\ net' = [net EXCEPT !.dial = dial_timeout(@)]
    /\ UNCHANGED <<role, parser, harness, server, client, input, marks, pos, calls, raised>>

NextTcp ==
    \/ Poll
    \/ \E c \in 1..2, does \in Does : TcpRead(c, does)
    \/ \E c \in 1..2, fails \in BOOLEAN : TcpWrite(c, fails)
    \/ \E c \in 1..2 : TcpEvent(c)
    \/ \E c \in 1..2 : AppUnpause(c)
    \/ \E c \in 1..2 : SetCloseCb(c)
    \/ \E c \in 1..2 : PeerSend(c)
    \/ \E c \in 1..2 : PeerClose(c)
    \/ DialConnect
    \/ DialTimeout

SpecTcp == InitTcp /\ [][NextTcp]_vars

\* C11: no read_cb is called on a connection while it is paused
\* (stated as the claim has it; the loop serves a connection that was
\* paused after the poll of the cycle had found it readable)
C11_NoReadWhilePaused ==
    role = "tcp" => \A c \in 1..2 : ~net.seen[c].read_paused

\* C15: close_cb is called at most once on a connection, whatever close
\* events follow the first; once conn_closed has run on a connection,
\* close_cb has been called or, none having been in place, a further
\* run of conn_closed is scheduled
C15_CloseCbOnce ==
    role = "tcp" =>
        \A c \in 1..2 :
            /\ net.seen[c].close_calls <= 1
            /\ net.conns[c].close_cb_called <=> net.seen[c].close_calls = 1
            /\ (~net.conns[c].connected /\ net.conns[c].open) =>
                  (net.seen[c].close_calls = 1 \/ net.events[c] > 0)

\* the peer closed before a close_cb was in place; close_cb has been called
\* once since, and another scheduled run of conn_closed is still to come
C15_Witness ==
    /\ role = "tcp"
    /\ net.peer[1].closed /\ ~net.conns[1].connected
    /\ net.conns[1].close_cb = "app" /\ net.seen[1].close_calls = 1
    /\ net.events[1] = 1

\* C16: of conn_handler and connect_error_handler at most one is called
\* for a create_client, and at most once
\* (stated as the claim has it; after the timeout error a late connect
\* is still handed to conn_handler)
C16_OneConnectOutcome ==
    role = "tcp" => net.dial.conn_calls + net.dial.err_calls <= 1

(***************************************************************************)
(* One connection whose application writes faster than the socket takes    *)
(* the data, and closes.  Besides the connection, its peer and what the    *)
(* application has seen, net holds                                         *)
(*   close_called   close() has been called                                *)
(*   at_close       every byte that had been written when close() was      *)
(*                  called, of which left_at_close were still buffered     *)
(*   was_paused     pause_cb(True) has been called                         *)
(* The socket takes data whenever the connection is writable (weak         *)
(* fairness of Drain), which is what the loop does for a writable socket.  *)
(***************************************************************************)
\* how many chunks the application writes
MaxWrites == 18

InitWrite ==
    /\ role = "write"
    /\ parser = NewParser
    /\ harness = [events |-> <<>>, allows |-> TRUE]
    /\ server = NoServer
    /\ client = NoClient
    /\ net = [on |-> TRUE, conns |-> <<Accepted("app")>>, peer |-> <<NewPeer>>,
              seen |-> <<NewSeen>>, events |-> <<0>>, written |-> 0,
              close_called |-> FALSE, at_close |-> <<>>, left_at_close |-> 0,
              was_paused |-> FALSE]
    /\ input = <<>>
    /\ marks = {}
    /\ pos = 0
    /\ calls = 0
    /\ raised = <<>>

\* the application writes a chunk
Produce ==
    /\ role = "write"
    /\ ~net.close_called /\ net.written < MaxWrites
    /\ net' = [net EXCEPT !.conns[1] = tcp_write(@, DataChunk),
                          !.written = @ + 1,
                          !.was_paused = @ \/ WriteSignal(net.conns[1],
                                                  Len(net.conns[1].wbuf) + 1) = "True"]
    /\ UNCHANGED <<role, parser, harness, server, client, input, marks, pos, calls, raised>>

\* handle_write on a writable connection: the socket takes all or half
Drain(half) ==
    /\ role = "write"
    /\ net.conns[1].open /\ writable(net.conns[1])
    /\ ~net.peer[1].closed
    /\ net' = [net EXCEPT !.conns[1] =
                  tcp_handle_write(@, Taken(Len(Concat(net.conns[1].wbuf)), half))]
    /\ UNCHANGED <<role, parser, harness, server, client, input, marks, pos, calls, raised>>

\* handle_write when the peer has gone: send raises EPIPE
DrainFails ==
    /\ role = "write"
    /\ net.conns[1].open /\ writable(net.conns[1])
    /\ net.peer[1].closed /\ Len(net.conns[1].wbuf) > 0
    /\ net' = tcp_conn_closed(net, 1)
    /\ UNCHANGED <<role, parser, harness, server, client, input, marks, pos, calls, raised>>

\* the application calls close()
AppClose ==
    /\ role = "write"
    /\ ~net.close_called
    /\ net' = [net EXCEPT !.conns[1] = tcp_close(@),
                          !.close_called = TRUE,
                          !.at_close = net.conns[1].wire \o Concat(net.conns[1].wbuf),
                          !.left_at_close = Len(Concat(net.conns[1].wbuf))]
    /\ UNCHANGED <<role, parser, harness, server, client, input, marks, pos, calls, raised>>

\* the peer resets the connection
PeerReset ==
    /\ role = "write"
    /\ ~net.peer[1].closed
    /\ net' = [net EXCEPT !.peer[1].closed = TRUE]
    /\ UNCHANGED <<role, parser, harness, server, client, input, marks, pos, calls, raised>>

NextWrite ==
    \/ Produce
    \/ \E half \in BOOLEAN : Drain(half)
    \/ DrainFails
    \/ AppClose
    \/ PeerReset

SpecWrite ==
    InitWrite /\ [][NextWrite]_vars /\ WF_vars(\E half \in BOOLEAN : Drain(half))

\* what write and handle_write have last told pause_cb fits the buffer
PauseSignalFits ==
    role = "write" =>
        /\ Len(net.conns[1].wbuf) + Len(net.conns[1].wire) <= net.written
        /\ Len(net.conns[1].wbuf) > write_bufsize => net.conns[1].pause_sig = "True"
        /\ net.conns[1].pause_sig = "True" => Len(net.conns[1].wbuf) > write_bufsize
        /\ net.conns[1].pause_sig = "False" => Len(net.conns[1].wbuf) < write_bufsize

\* C13: write appends the chunk and calls pause_cb(True) exactly when more
\* than write_bufsize chunks are buffered; pause_cb(False) is called only
\* with fewer than write_bufsize chunks buffered; and after pause_cb(True),
\* unless the peer goes away, pause_cb(False) is called in the end
C13_PauseThenResume ==
    /\ []PauseSignalFits
    /\ (role = "write" /\ net.conns[1].pause_sig = "True")
          ~> (net.conns[1].pause_sig = "False" \/ net.peer[1].closed)

\* the buffer went over write_bufsize, and has been drained since
C13_Witness ==
    /\ role = "write" /\ net.was_paused /\ ~net.peer[1].closed
    /\ net.conns[1].pause_sig = "False"
    /\ Len(net.conns[1].wire) > write_bufsize

\* where close() has left the connection, the peer still being there
ClosedInOrder ==
    (role = "write" /\ net.close_called /\ ~net.peer[1].closed) =>
        /\ net.conns[1].paused
        /\ IF net.conns[1].open
           THEN net.conns[1].closing /\ net.conns[1].wbuf # <<>>
           ELSE /\ net.conns[1].wbuf = <<>>
                /\ net.conns[1].wire = net.at_close

\* C14: close() pauses reads; with nothing buffered the socket is closed at
\* once, otherwise the connection is closing and the socket stays open
\* while something is buffered; when the socket is closed every byte
\* written before close() has been sent; and, unless the peer goes away,
\* the socket is closed in the end
C14_CloseFlushes ==
    /\ []ClosedInOrder
    /\ (role = "write" /\ net.close_called)
          ~> (~net.conns[1].open \/ net.peer[1].closed)

\* close() came with data buffered, which has all been sent since
C14_Witness ==
    /\ role = "write" /\ net.close_called /\ ~net.peer[1].closed
    /\ net.left_at_close > 1
    /\ ~net.conns[1].open
    /\ net.conns[1].wire = net.at_close

(***************************************************************************)
(* The order of the callbacks of one message, as the application of a      *)
(* client sees them.                                                       *)
(***************************************************************************)
\* the calls i+1..j-1 of the log hold a res_start for client cl
StartedBetween(cl, i, j) ==
    \E m \in (i + 1)..(j - 1) :
        client.log[m].k = "res_start" /\ client.log[m].cl = cl

\* C21: no body callback follows the end callback of the same message:
\* whenever res_body is called for a client after a res_end for it, a
\* res_start for that client, which opens another message, lies between
\* the two; this for every way the bytes are cut into reads and wherever
\* the peer closes the connection
C21_NoBodyAfterEnd ==
    role = "client" =>
        \A i \in 1..Len(client.log) : \A j \in 1..Len(client.log) :
            ( /\ i < j
              /\ client.log[i].k = "res_end"
              /\ client.log[j].k = "res_body"
              /\ client.log[j].cl = client.log[i].cl )
            => StartedBetween(client.log[i].cl, i, j)

\* a response has ended and bytes that came later have been delivered as
\* the body of a further response on the same client
C21_Witness ==
    /\ role = "client"
    /\ \E i \in 1..Len(client.log) : \E j \in 1..Len(client.log) :
          /\ i < j
          /\ client.log[i].k = "res_end" /\ client.log[i].err = ""
          /\ client.log[j].k = "res_body" /\ client.log[j].cl = client.log[i].cl
          /\ \E m \in (i + 1)..(j - 1) : client.log[m].k = "read_cb"

(***************************************************************************)
(* A counted message followed by bytes that its Content-Length does not    *)
(* cover: Content-Length 3 and five bytes, in fragments of every size.     *)
(***************************************************************************)
M_extra == M_counted \o <<"d", "e">>

InitExtra ==
    /\ role = "rec"
    /\ parser = NewParser
    /\ harness = [events |-> <<>>, allows |-> TRUE]
    /\ server = NoServer
    /\ client = NoClient
    /\ net = NoNet
    /\ input = M_extra
    /\ marks = {}
    /\ pos = 0
    /\ calls = 0
    /\ raised = <<>>

SpecExtra == InitExtra /\ [][NextParser]_vars

\* C22: once the five bytes have arrived, however they were cut, the body
\* callback has had exactly the first three and the error EXTRA_DATA has
\* been reported with the other two as its detail
C22_ExtraDataReported ==
    (role = "rec" /\ input = M_extra /\ pos = Len(input)) =>
        /\ Len(harness.events) = 3
        /\ harness.events[1].k = "start"
        /\ harness.events[2].k = "body" /\ harness.events[2].data = <<"a", "b", "c">>
        /\ harness.events[3].k = "error" /\ harness.events[3].err = "EXTRA_DATA"
        /\ harness.events[3].data = <<"d", "e">>

(***************************************************************************)
(* The bytes of a counted body against the Content-Length of its header    *)
(* block, as the recording subclass has seen them.                         *)
(***************************************************************************)
\* the places in the header tuples hdrs of the headers called name
Named(hdrs, name) == {i \in 1..Len(hdrs) : lower(strip(hdrs[i][1])) = name}

\* the least member of a non-empty set of numbers
Least(S) == CHOOSE x \in S : \A y \in S : x <= y

\* the message that starts with header tuples hdrs is a counted one
IsCounted(hdrs) ==
    /\ Named(hdrs, w_transfer_encoding) = {}
    /\ Named(hdrs, w_content_length) # {}
    /\ int(strip(hdrs[Least(Named(hdrs, w_content_length))][2]), 10).ok

\* the length that the first Content-Length of hdrs declares
Declared(hdrs) == int(strip(hdrs[Least(Named(hdrs, w_content_length))][2]), 10).val

\* how many bytes the body callbacks from call i to call j have been given
RECURSIVE BodyBytes(_, _)
BodyBytes(i, j) ==
    IF i > j THEN 0
    ELSE (IF harness.events[i].k = "body" THEN Len(harness.events[i].data) ELSE 0)
         + BodyBytes(i + 1, j)

\* the start callback of the message whose end callback is call i
StartOf(i) ==
    Max({0} \cup {s \in 1..i : harness.events[s].k = "start"})

\* C23: when the end callback is called for a counted message, the chunks
\* given to the body callback since its start add up to the Content-Length
\* of its header block, however the input was cut into fragments
C23_CountedBodyAddsUp ==
    role = "rec" =>
        \A i \in 1..Len(harness.events) :
            ( /\ harness.events[i].k = "end"
              /\ StartOf(i) # 0
              /\ IsCounted(harness.events[StartOf(i)].hdrs) )
            => BodyBytes(StartOf(i), i) = Declared(harness.events[StartOf(i)].hdrs)

\* a counted body of three bytes has arrived in more than one fragment and
\* its end callback has been called
C23_Witness ==
    /\ role = "rec" /\ input = M_counted /\ calls = 2
    /\ Len(harness.events) = 3
    /\ harness.events[3].k = "end"
    /\ IsCounted(harness.events[1].hdrs)
    /\ parser.left < 3

(***************************************************************************)
(* The chunked request 'POST /p' with body 'hello', as its handler sees    *)
(* it.                                                                     *)
(***************************************************************************)
s_hello == <<"h","e","l","l","o">>

\* the chunks that the calls i.. of the log gave to req_body of request id
RECURSIVE ReqBody(_, _)
ReqBody(id, i) ==
    IF i > Len(server.log) THEN <<>>
    ELSE IF server.log[i].k = "req_body" /\ server.log[i].req = id
    THEN server.log[i].data \o ReqBody(id, i + 1)
    ELSE ReqBody(id, i + 1)

\* C24: once the chunked request has arrived, the handler's req_body has
\* been given exactly 'hello' and after that its req_done has been called
\* once, with no error; nothing was raised on the way
C24_ChunkedRequestDelivered ==
    (role = "server" /\ input = M_chunked \o M_get /\ pos >= Len(M_chunked)) =>
        /\ ReqBody(1, 1) = s_hello
        /\ Cardinality(LogAt("req_done", 1)) = 1
        /\ \A i \in LogAt("req_done", 1) :
              /\ server.log[i].err = "None"
              /\ \A j \in LogAt("req_body", 1) : j < i
        /\ raised = <<>>

(***************************************************************************)
(* The response writer: requests of versions 1.0, 1.1 and 2.0, with and    *)
(* without 'Connection: close', answered with 200 OK and the body 'hi' by  *)
(* a handler that gives Content-Type alone, or a Content-Length too, or a  *)
(* hop-by-hop header too.                                                  *)
(***************************************************************************)
Q_a ==
    <<"G","E","T",SP,"/","a",SP,"H","T","T","P","/","1",".","1",CR,LF,"H","o",
      "s","t",":",SP,"x",CR,LF,CR,LF>>

Q_close ==
    <<"G","E","T",SP,"/","a",SP,"H","T","T","P","/","1",".","1",CR,LF,"H","o",
      "s","t",":",SP,"x",CR,LF,"C","o","n","n","e","c","t","i","o","n",":",SP,
      "c","l","o","s","e",CR,LF,CR,LF>>

Q_10 == <<"G","E","T",SP,"/","a",SP,"H","T","T","P","/","1",".","0",CR,LF,CR,LF>>

Q_20 == <<"G","E","T",SP,"/","a",SP,"H","T","T","P","/","2",".","0",CR,LF,CR,LF>>

ResScenarios == { <<Q_a, Q_a>>, <<Q_close>>, <<Q_10>>, <<Q_20>>, <<Q_a, M_nohost>> }

H_len == AppHeaders \o << <<Upto(s_content_length, 14), <<"2">>>> >>

H_hop == << <<<<"U","p","g","r","a","d","e">>, <<"h","2">>>> >> \o AppHeaders

ResApps == [sync : BOOLEAN, hdrs : {AppHeaders, H_len, H_hop}, body : {s_hi}]

InitRes ==
    /\ role = "server"
    /\ parser = NewParser
    /\ harness = [events |-> <<>>, allows |-> TRUE]
    /\ \E app \in ResApps : server = NewServer(app)
    /\ client = NoClient
    /\ net = NoNet
    /\ \E sc \in ResScenarios : input = Concat(sc) /\ marks = CutPoints(sc, 0)
    /\ pos = 0
    /\ calls = 0
    /\ raised = <<>>

SpecRes == InitRes /\ [][NextServer]_vars

\* the bytes that request id has handed to _tcp_conn.write, from write i on
RECURSIVE Written(_, _)
Written(id, i) ==
    IF i > Len(server.writes) THEN <<>>
    ELSE IF server.writes[i].req = id
    THEN server.writes[i].data \o Written(id, i + 1)
    ELSE Written(id, i + 1)

\* 'HTTP/1.1 200 OK', 'Content-Type: text/plain', 'Transfer-Encoding:
\* chunked', a blank line, then '2', 'hi', '0' and a blank line
HiResponse ==
    join(linesep, <<s_http11 \o s_200 \o <<SP>> \o s_OK,
                    s_Content_Type \o <<":", SP>> \o s_text_plain,
                    s_te_chunked, <<>>,
                    <<"2">>, s_hi, <<"0">>, <<>>, <<>> >>)

\* a is the start of b
IsPrefix(a, b) == Len(a) <= Len(b) /\ SubSeq(b, 1, Len(a)) = a

\* the handler of the first request has called res_start, res_body with
\* 'hi' and res_done
FirstAnswered ==
    /\ server.reqs # <<>>
    /\ LogAt("res_body", 1) # {}
    /\ LogAt("res_done", 1) # {}

\* C25: for 'GET /a HTTP/1.1', 'Host: x' answered with 200 OK, Content-Type:
\* text/plain and the body 'hi', the bytes written to the connection for the
\* request are exactly the status line, the Content-Type line,
\* 'Transfer-Encoding: chunked', a blank line, '2', 'hi', '0' and a blank
\* line, each ended by CRLF; while the response is being made they are a
\* start of that, and what goes to the peer begins with nothing else
C25_HiResponseBytes ==
    (role = "server" /\ input = Q_a \o Q_a /\ server.app.hdrs = AppHeaders
     /\ server.reqs # <<>>) =>
        /\ LogAt("res_body", 1) # {} => IsPrefix(Written(1, 1), HiResponse)
        /\ FirstAnswered => Written(1, 1) = HiResponse
        /\ FirstAnswered => \/ IsPrefix(server.tcp.wire, HiResponse)
                            \/ IsPrefix(HiResponse, server.tcp.wire)

\* the whole response has been written by a handler that answered later,
\* and has gone to the peer
C25_Witness ==
    /\ role = "server" /\ input = Q_a \o Q_a /\ server.app.hdrs = AppHeaders
    /\ ~server.app.sync
    /\ FirstAnswered
    /\ server.tcp.wire = HiResponse
    /\ server.tcp.wbuf = <<>>

(***************************************************************************)
(* The header block that res_start writes, line by line.                   *)
(***************************************************************************)
\* the first write made for request id: the header block of its response
RECURSIVE HeadWrite(_, _)
HeadWrite(id, i) ==
    IF i > Len(server.writes) THEN <<>>
    ELSE IF server.writes[i].req = id THEN server.writes[i].data
    ELSE HeadWrite(id, i + 1)

\* the lines of a header block, without the blank line that ends it
BlockLines(block) == splitlines(SubSeq(block, 1, Len(block) - 4))

\* the name of a header line, lower-cased
LineName(line) ==
    IF IndexOf(line, ":") = 0 THEN <<>> ELSE lower(SubSeq(line, 1, IndexOf(line, ":") - 1))

\* the headers of the response carry a Content-Length
CarriesLength(hdrs) == \E i \in 1..Len(hdrs) : lower(strip(hdrs[i][1])) = w_content_length

\* the delimitation that the claim's order gives for request r answered
\* with headers hdrs, and the header line it has appended
ClaimedDelimit(r, hdrs) ==
    IF InList(w_close, r.connection_hdr)
    THEN [delimit |-> "CLOSE", line |-> s_conn_close]
    ELSE IF CarriesLength(hdrs)
    THEN [delimit |-> "COUNTED", line |-> s_conn_keep_alive]
    ELSE IF r.req_version >= 11 /\ r.req_version < 20
    THEN [delimit |-> "CHUNKED", line |-> s_te_chunked]
    ELSE [delimit |-> "CLOSE", line |-> s_conn_close]

\* C26: once the handler's res_start has run, the response is delimited
\* CLOSE if the request's Connection held close, else COUNTED if the
\* handler's headers carry Content-Length, else CHUNKED for a request of
\* version 1.1 up to 2.0, else CLOSE; the last line of the header block is
\* the one that goes with it ('Connection: close', 'Connection:
\* keep-alive', 'Transfer-Encoding: chunked'); and no hop-by-hop header
\* that the handler gave is in the block
C26_ResponseDelimitation ==
    role = "server" =>
        \A id \in 1..Len(server.reqs) :
            (server.reqs[id].error = "" /\ server.reqs[id].res_state = "HEADERS_DONE") =>
                LET lines == BlockLines(HeadWrite(id, 1))
                    d == ClaimedDelimit(server.reqs[id], server.app.hdrs)
                IN  /\ server.reqs[id].res_delimit = d.delimit
                    /\ lines[Len(lines)] = d.line
                    /\ \A i \in 2..(Len(lines) - 1) :
                          ~InList(LineName(lines[i]), hop_by_hop_hdrs)

(***************************************************************************)
(* What res_done leaves behind.                                            *)
(***************************************************************************)
\* how many writes request id has made
WritesOf(id) == Cardinality({i \in 1..Len(server.writes) : server.writes[i].req = id})

\* the last write that request id has made
LastWrite(id) ==
    server.writes[Max({i \in 1..Len(server.writes) : server.writes[i].req = id})].data

\* how many calls of res_body for request id had a chunk to write
BodiesOf(id) == Cardinality({i \in LogAt("res_body", id) : server.log[i].data # <<>>})

\* res_done has been called for request id, once, with err ("" for None)
DoneWith(id, err) ==
    /\ Cardinality(LogAt("res_done", id)) = 1
    /\ \A i \in LogAt("res_done", id) : server.log[i].err = err

\* how often the exception e has left a top-level call
Times(e) == Cardinality({i \in 1..Len(raised) : raised[i] = e})

\* what res_done has done for request id
ResDoneEffect(id) ==
    /\ ~InList(id, server.queue)
    /\ IF DoneWith(id, "") /\ server.reqs[id].res_delimit = "CHUNKED"
       THEN /\ WritesOf(id) = BodiesOf(id) + 2
            /\ LastWrite(id) = s_last_chunk
       ELSE WritesOf(id) = BodiesOf(id) + 1
    /\ (~DoneWith(id, "") \/ server.reqs[id].res_delimit = "CLOSE") =>
          (server.tcp.closing \/ ~server.tcp.open)

C27_ErrorEnded ==
    /\ role = "server" /\ Len(server.reqs) = 2
    /\ server.reqs[2].error # ""
    /\ LogAt("res_done", 2) # {} /\ ~DoneWith(2, "")
    /\ server.tcp.closing

(***************************************************************************)
(* req_start with a URI that is not a http URI with an integer port.       *)
(***************************************************************************)
\* the application calls req_start on client k with a URI of the given
\* scheme and port; the call is noted in the log
CliReqStartUri(k, scheme, port, fate) ==
    /\ role = "client"
    /\ k \in 1..Len(client.cl)
    /\ ~client.cl[k].asked
    /\ SetClientWorld(
          cli_req_start_uri(CLog(CW(k), "req_start", k, <<scheme, port>>, ""),
                            k, scheme, port, fate), k)
    /\ UNCHANGED <<role, input, marks, pos, calls>>

NextUri ==
    \E scheme \in Schemes, port \in Ports, fate \in Fates :
        CliReqStartUri(1, scheme, port, fate)

SpecUri == InitPool /\ [][NextUri]_vars

\* req_start has been called on client k with a URI it turns down
TurnedDown(k) ==
    \E i \in 1..Len(client.log) :
        /\ client.log[i].k = "req_start" /\ client.log[i].cl = k
        /\ ~UriWellFormed(client.log[i].data[1], client.log[i].data[2])

\* C28: after req_start with a URI whose scheme is not http or whose port
\* is not an integer, the response-start callback has been called, the
\* body callback has had the description of the error, the response-done
\* callback has had error URL, no exception has been raised, the client has
\* no connection, no connect has been started, the pool is as it was, and
\* the request has not been started
C28_BadUriSurfacesUrlError ==
    (role = "client" /\ TurnedDown(1)) =>
        /\ raised = <<>>
        /\ \E a, b, c \in 1..Len(client.log) :
              /\ a < b /\ b < c
              /\ client.log[a].k = "res_start" /\ client.log[a].cl = 1
              /\ client.log[b].k = "res_body" /\ client.log[b].cl = 1
              /\ client.log[b].data = ErrDesc("URL")
              /\ client.log[c].k = "res_end" /\ client.log[c].cl = 1
              /\ client.log[c].err = "URL"
        /\ client.cl[1].tcp = 0
        /\ client.dials = <<>>
        /\ client.pool = client.pool0
        /\ client.cl[1].req_state = "WAITING"

\* what the claim's case comes to instead: a TypeError leaves req_start and
\* no callback has been called
C28_TypeErrorInstead ==
    /\ role = "client" /\ TurnedDown(1)
    /\ raised = <<"TypeError">>
    /\ Len(client.log) = 1

(***************************************************************************)
(* push_tcp.py: the timers of _AsyncoreLoop.                               *)
(***************************************************************************)
\* how many timers are scheduled, the latest time of the clock, the deltas
\* given to schedule, and what a timer's callback does
MaxTimers == 3
MaxTime == 2
Deltas == {0, 1}
Whats == {"noop", "delete", "schedule"}

\* _AsyncoreLoop.granularity
granularity == 1

\* the orders in which the closures cb of the timers can lie in memory:
\* Python 2 orders two functions by their addresses
AddrOrders ==
    {f \in [1..MaxTimers -> 1..MaxTimers] : \A a, b \in 1..MaxTimers : f[a] = f[b] => a = b}

\* _AsyncoreLoop.__init__, at time 1 of the clock; timers and fired are
\* the history of schedule and of the callbacks
NewLoop(addrs) ==
    [on |-> TRUE, events |-> <<>>, now |-> 1, clock |-> 1, last_event_check |-> 0,
     timers |-> <<>>, fired |-> <<>>, addrs |-> addrs]

\* (when, cb) < (when, cb) of two tuples
EventLess(a, b) == a.when < b.when \/ (a.when = b.when /\ a.addr < b.addr)

\* bisect.insort: behind every entry that is not greater than the new one
insort(events, new) ==
    LET n == Cardinality({i \in 1..Len(events) : ~EventLess(new, events[i])})
    IN  SubSeq(events, 1, n) \o <<new>> \o SubSeq(events, n + 1, Len(events))

\* list.remove of an entry that is in the list
ListRemove(events, id) ==
    LET n == CHOOSE i \in 1..Len(events) : events[i].id = id
    IN  SubSeq(events, 1, n - 1) \o SubSeq(events, n + 1, Len(events))

InEvents(events, id) == \E i \in 1..Len(events) : events[i].id = id

\* _AsyncoreLoop.schedule; the callback of the new timer does what, to the
\* timer target
schedule(l, delta, what, target) ==
    IF Len(l.timers) >= MaxTimers THEN l
    ELSE LET id == Len(l.timers) + 1
             new == [when |-> l.now + delta, addr |-> l.addrs[id], id |-> id]
         IN  [l EXCEPT !.events = insort(@, new),
                       !.timers = Append(@, [when |-> new.when, what |-> what,
                                             target |-> target, deleted |-> FALSE])]

\* event_holder.delete of timer id
holder_delete(l, id) ==
    IF id > Len(l.timers) \/ l.timers[id].deleted THEN l
    ELSE IF InEvents(l.events, id)
    THEN [l EXCEPT !.events = ListRemove(@, id), !.timers[id].deleted = TRUE]
    ELSE l

\* what(): the callback of timer id
TimerCallback(l, id) ==
    LET m == [l EXCEPT !.fired = Append(@, [id |-> id, deleted |-> l.timers[id].deleted])]
    IN  CASE l.timers[id].what = "delete" -> holder_delete(m, l.timers[id].target)
          [] l.timers[id].what = "schedule" -> schedule(m, 0, "noop", id)
          [] OTHER -> m

\* the loop "for event in self.events" from the entry at index i on: the
\* iterator of a list goes by index, whatever is removed or inserted
RECURSIVE RunEvents(_, _)
RunEvents(l, i) ==
    IF i > Len(l.events) THEN l
    ELSE IF l.now >= l.events[i].when
    THEN RunEvents(TimerCallback([l EXCEPT !.events = ListRemove(@, l.events[i].id)],
                                 l.events[i].id),
                   i + 1)
    ELSE l

\* one turn of the while loop of _AsyncoreLoop.run, the clock being at t
LoopTurn(l, t) ==
    IF t - l.last_event_check >= granularity
    THEN RunEvents([l EXCEPT !.now = t, !.clock = t, !.last_event_check = t], 1)
    ELSE [l EXCEPT !.now = t, !.clock = t]

InitLoop ==
    /\ role = "loop"
    /\ parser = NewParser
    /\ harness = [events |-> <<>>, allows |-> TRUE]
    /\ server = NoServer
    /\ client = NoClient
    /\ \E addrs \in AddrOrders : net = NewLoop(addrs)
    /\ input = <<>>
    /\ marks = {}
    /\ pos = 0
    /\ calls = 0
    /\ raised = <<>>

\* a handler of a socket schedules a timer
AppSchedule(delta, what, target) ==
    /\ role = "loop"
    /\ Len(net.timers) < MaxTimers
    /\ net' = schedule(net, delta, what, target)
    /\ UNCHANGED <<role, parser, harness, server, client, input, marks, pos, calls, raised>>

\* a handler of a socket deletes a timer it holds
AppDelete(id) ==
    /\ role = "loop"
    /\ id \in 1..Len(net.timers)
    /\ ~net.timers[id].deleted
    /\ net' = holder_delete(net, id)
    /\ UNCHANGED <<role, parser, harness, server, client, input, marks, pos, calls, raised>>

\* the loop goes round, the clock having gone on by adv
LoopRound(adv) ==
    /\ role = "loop"
    /\ net.clock + adv <= MaxTime
    /\ net' = LoopTurn(net, net.clock + adv)
    /\ UNCHANGED <<role, parser, harness, server, client, input, marks, pos, calls, raised>>

NextLoop ==
    \/ \E delta \in Deltas, what \in Whats, target \in 1..MaxTimers :
          (what = "delete" \/ target = 1) /\ AppSchedule(delta, what, target)
    \/ \E id \in 1..MaxTimers : AppDelete(id)
    \/ \E adv \in 0..1 : LoopRound(adv)

SpecLoop == InitLoop /\ [][NextLoop]_vars

\* the places in fired of timer id
FiredAt(id) == {i \in 1..Len(net.fired) : net.fired[i].id = id}

\* no timer has fired after its handle's delete took it off the list, and
\* none has fired twice
DeletedNeverFireOthersOnce ==
    /\ \A i \in 1..Len(net.fired) : ~net.fired[i].deleted
    /\ \A id \in 1..Len(net.timers) :
          /\ Cardinality(FiredAt(id)) <= 1
          /\ (net.timers[id].deleted => FiredAt(id) = {})

\* two timers of one deadline that have both fired have fired in the order
\* in which they were scheduled
SameDeadlineFifo ==
    \A a, b \in 1..Len(net.timers) :
        (a < b /\ net.timers[a].when = net.timers[b].when
               /\ FiredAt(a) # {} /\ FiredAt(b) # {}) =>
            \A i \in FiredAt(a) : \A j \in FiredAt(b) : i < j

\* C29: timers of the same deadline fire in the order in which they were
\* scheduled, a timer deleted before it fired never fires, and every other
\* timer fires at most once
C29_TimersFifo ==
    role = "loop" => (SameDeadlineFifo /\ DeletedNeverFireOthersOnce)

\* the part of C29 about deleted timers and firing at most once
C29_DeletedAndOnce == role = "loop" => DeletedNeverFireOthersOnce

\* three timers of one deadline whose closures lie in memory in the order
\* in which they were scheduled, and none deleted: the third has fired
\* before the second
C29_SecondSkipped ==
    /\ role = "loop"
    /\ \A id \in 1..MaxTimers : net.addrs[id] = id
    /\ Len(net.timers) = 3
    /\ \A id \in 1..3 : /\ net.timers[id].when = net.timers[1].when
                        /\ net.timers[id].what = "noop"
                        /\ ~net.timers[id].deleted
    /\ Len(net.fired) = 3
    /\ net.fired[1].id = 1 /\ net.fired[2].id = 3 /\ net.fired[3].id = 2

\* a timer has been deleted by its handle while others fired
C29_DeletedWitness ==
    /\ role = "loop"
    /\ \E id \in 1..Len(net.timers) : net.timers[id].deleted /\ net.timers[id].when <= net.now
    /\ Len(net.fired) = 2

(***************************************************************************)
(* spdy_common.py: SpdyMessageHandler._handle_input.  Bytes are numbers    *)
(* here, since the frame header is taken apart arithmetically.             *)
(***************************************************************************)
\* frame types and flags
DATA_FRAME == 0
CTL_SYN_STREAM == 1
CTL_SYN_REPLY == 2
CTL_FIN_STREAM == 3
CTL_HELLO == 4
CTL_NOOP == 5
CTL_PING == 6
CTL_GOAWAY == 7
FLAG_NONE == 0
FLAG_FIN == 1

\* the length of a frame header
FrameHeaderLen == 8

\* SpdyMessageHandler.__init__; blocks counts the header blocks that the
\* decompressor has been given, events are the calls of _input_start,
\* _input_body, _input_end and _input_error, exc is the exception that has
\* left _handle_input
NewSpdy ==
    [buffer |-> <<>>, state |-> "WAITING", frame_type |-> 0, flags |-> 0,
     stream_id |-> 0, frame_len |-> 0, blocks |-> 0, events |-> <<>>,
     exc |-> "none"]

SpdyEv(k, sid, data) == [k |-> k, sid |-> sid, data |-> data]

SpdyCall(sp, k, sid, data) == [sp EXCEPT !.events = Append(@, SpdyEv(k, sid, data))]

SpdyRaise(sp, e) == [sp EXCEPT !.exc = e]

\* struct.unpack("!I", b)[0] & STREAM_MASK of four bytes: the number they
\* spell without the top bit of the first
UnpackMasked(b) == (b[1] % 128) * 16777216 + b[2] * 65536 + b[3] * 256 + b[4]

\* the bytes that do not yet make a header or a frame thrown away
KeepPartial_drop(sp, data) == sp

\* self._input_buffer = data
KeepPartial(sp, data) == [sp EXCEPT !.buffer = data]

\* the header of a frame decoded: lines 122-132
DecodeHeader(sp, h) ==
    LET control == h[1] >= 128
    IN  [sp EXCEPT !.flags = h[5],
                   !.frame_type = IF control THEN h[3] * 256 + h[4] ELSE DATA_FRAME,
                   !.stream_id = IF control THEN 0 ELSE UnpackMasked(h),
                   !.frame_len = h[6] * 65536 + h[7] * 256 + h[8],
                   !.state = "READING_FRAME_DATA"]

\* The zlib coding itself is not worked out.  What is kept of it: the
\* output of a compressor depends on what it has compressed before, and a
\* decompressor gives the text back only if it has been given the same
\* blocks before, in the same order.  The n-th block of a session is
\* written as a mark, n, and the text.
ZMark == 120

\* self._compress(data) for the n-th block of the session
Compress(n, data) == <<ZMark, n>> \o data

\* the block is what a decompressor that has had seen blocks can take
Inflates(seen, block) == Len(block) >= 2 /\ block[1] = ZMark /\ block[2] = seen + 1

\* self._decompress(data) of such a block
Decompress(block) == SubSeq(block, 3, Len(block))

\* struct.unpack("!h", b) of two bytes, for numbers below 32768
UnpackH(b) == b[1] * 256 + b[2]

\* data[a:b] with 0-based a
Slice(data, a, b) == SubSeq(data, a + 1, Min(b, Len(data)))

\* the while loop of _parse_hdrs from cursor on: the list of (name, value)
\* read, or the exception raised
RECURSIVE ParseLoop(_, _, _)
ParseLoop(data, cursor, hdrs) ==
    IF cursor >= Len(data) THEN [exc |-> "none", hdrs |-> hdrs]
    ELSE IF Len(data) < cursor + 2 THEN [exc |-> "struct.error", hdrs |-> hdrs]
    ELSE LET name_len == UnpackH(Slice(data, cursor, cursor + 2))
             name == Slice(data, cursor + 2, cursor + 2 + name_len)
             at == cursor + 2 + name_len
         IN  IF Len(data) < at + 2 THEN [exc |-> "struct.error", hdrs |-> hdrs]
             ELSE LET val_len == UnpackH(Slice(data, at, at + 2))
                      value == Slice(data, at + 2, at + 2 + val_len)
                  IN  ParseLoop(data, at + 2 + val_len, Append(hdrs, <<name, value>>))

\* _parse_hdrs with a decompressor of its own for every block
ParseHdrs_fresh(sp, block) ==
    IF ~Inflates(0, block)
    THEN [sp |-> SpdyRaise(sp, "AssertionError"), hdrs |-> <<>>]
    ELSE IF Len(Decompress(block)) < 2
    THEN [sp |-> SpdyRaise(sp, "struct.error"), hdrs |-> <<>>]
    ELSE LET r == ParseLoop(Decompress(block), 2, <<>>)
         IN  [sp |-> IF r.exc = "none" THEN sp ELSE SpdyRaise(sp, r.exc),
              hdrs |-> r.hdrs]

\* _parse_hdrs of a header block; a block that the decompressor cannot take
\* is a zlib error, raised as AssertionError
ParseHdrs(sp, block) ==
    IF ~Inflates(sp.blocks, block)
    THEN [sp |-> SpdyRaise([sp EXCEPT !.blocks = @ + 1], "AssertionError"), hdrs |-> <<>>]
    ELSE IF Len(Decompress(block)) < 2
    THEN [sp |-> SpdyRaise([sp EXCEPT !.blocks = @ + 1], "struct.error"), hdrs |-> <<>>]
    ELSE LET r == ParseLoop(Decompress(block), 2, <<>>)
         IN  [sp |-> IF r.exc = "none" THEN [sp EXCEPT !.blocks = @ + 1]
                     ELSE SpdyRaise([sp EXCEPT !.blocks = @ + 1], r.exc),
              hdrs |-> r.hdrs]

\* the hdr_tuples handed to _input_start: a list, or what _input_error
\* has returned
HdrList(hdrs) == [none |-> FALSE, hdrs |-> hdrs]
ErrorReturn == [none |-> TRUE, hdrs |-> <<>>]

\* SYN_STREAM and SYN_REPLY: lines 144-149
DispatchSyn(sp, frame_data) ==
    IF Len(frame_data) < 4 THEN SpdyRaise(sp, "struct.error")
    ELSE LET sid == UnpackMasked(SubSeq(frame_data, 1, 4))
             r == ParseHdrs(sp, SubSeq(frame_data, 7, Len(frame_data)))
         IN  IF r.sp.exc # "none" THEN r.sp
             ELSE IF r.hdrs = <<>>
             THEN SpdyCall(SpdyCall(r.sp, "error", sid, <<>>), "start", sid, ErrorReturn)
             ELSE SpdyCall(r.sp, "start", sid, HdrList(r.hdrs))

\* the frame types that bind the local variable stream_id
BindsStreamId(type) == type \in {DATA_FRAME, CTL_SYN_STREAM, CTL_SYN_REPLY}

\* the local variable stream_id after the dispatch
LocalStreamId(sp, frame_data) ==
    IF sp.frame_type = DATA_FRAME THEN sp.stream_id
    ELSE UnpackMasked(SubSeq(frame_data, 1, 4))

\* the dispatch on the frame type: lines 140-161
Dispatch(sp, frame_data) ==
    CASE sp.frame_type = DATA_FRAME -> SpdyCall(sp, "body", sp.stream_id, frame_data)
      [] sp.frame_type \in {CTL_SYN_STREAM, CTL_SYN_REPLY} -> DispatchSyn(sp, frame_data)
      [] sp.frame_type = CTL_FIN_STREAM -> SpdyRaise(sp, "UnboundLocalError")
      [] sp.frame_type \in {CTL_HELLO, CTL_NOOP, CTL_PING, CTL_GOAWAY} -> sp
      [] OTHER -> SpdyRaise(sp, "ValueError")

\* "if self._input_flags & FLAG_FIN: self._input_end(stream_id)" and
\* "self._input_state = WAITING": lines 162-164
EndOfFrame(sp, before, frame_data) ==
    IF sp.exc # "none" THEN sp
    ELSE IF (before.flags % 2) = FLAG_FIN
    THEN IF BindsStreamId(before.frame_type)
         THEN [SpdyCall(sp, "end", LocalStreamId(before, frame_data), <<>>)
                  EXCEPT !.state = "WAITING"]
         ELSE SpdyRaise(sp, "UnboundLocalError")
    ELSE [sp EXCEPT !.state = "WAITING"]

\* SpdyMessageHandler._handle_input
RECURSIVE spdy_handle_input(_, _)
spdy_handle_input(sp0, data0) ==
    IF sp0.exc # "none" THEN sp0
    ELSE
    LET data == sp0.buffer \o data0
        sp == [sp0 EXCEPT !.buffer = <<>>]
    IN  IF sp.state = "WAITING"
        THEN IF Len(data) >= FrameHeaderLen
             THEN spdy_handle_input(DecodeHeader(sp, SubSeq(data, 1, FrameHeaderLen)),
                                    SubSeq(data, FrameHeaderLen + 1, Len(data)))
             ELSE KeepPartial(sp, data)
        ELSE IF Len(data) >= sp.frame_len
        THEN LET frame_data == SubSeq(data, 1, sp.frame_len)
                 rest == SubSeq(data, sp.frame_len + 1, Len(data))
                 done == EndOfFrame(Dispatch(sp, frame_data), sp, frame_data)
             IN  IF rest # <<>> THEN spdy_handle_input(done, rest) ELSE done
        ELSE KeepPartial(sp, data)

\* struct.pack("!H", n) and struct.pack("!I", n)
PackH(n) == <<n \div 256, n % 256>>
PackI(n) == <<n \div 16777216, (n \div 65536) % 256, (n \div 256) % 256, n % 256>>

\* struct.pack("!I", (flags << 24) + n) for a flags byte and n < 2^24
PackFlagsLen(flags, n) == <<flags, n \div 65536, (n \div 256) % 256, n % 256>>

\* _ser_data_frame, for stream ids up to STREAM_MASK
SerDataFrame(sid, flags, data) == PackI(sid) \o PackFlagsLen(flags, Len(data)) \o data

\* _ser_ctl_frame
SerCtlFrame(type, flags, data) ==
    PackH(32769) \o PackH(type) \o PackFlagsLen(flags, Len(data)) \o data

\* a < b for two strings of bytes
RECURSIVE BytesLess(_, _)
BytesLess(a, b) ==
    IF b = <<>> THEN FALSE
    ELSE IF a = <<>> THEN TRUE
    ELSE IF Head(a) # Head(b) THEN Head(a) < Head(b)
    ELSE BytesLess(Tail(a), Tail(b))

\* a < b for two (name, value) tuples
TupleLess(a, b) == BytesLess(a[1], b[1]) \/ (a[1] = b[1] /\ BytesLess(a[2], b[2]))

\* hdr_tuples.sort()
RECURSIVE SortHdrs(_)
SortHdrs(hdrs) ==
    IF hdrs = <<>> THEN <<>>
    ELSE LET rest == SortHdrs(Tail(hdrs))
             n == Cardinality({i \in 1..Len(rest) : TupleLess(rest[i], Head(hdrs))})
         IN  SubSeq(rest, 1, n) \o <<Head(hdrs)>> \o SubSeq(rest, n + 1, Len(rest))

\* the hdr_tuples as they are in the list: no sort before they are packed
KeepOrder(hdrs) == hdrs

\* the (name, value) tuples packed one behind the other
RECURSIVE PackHdrs(_)
PackHdrs(hdrs) ==
    IF hdrs = <<>> THEN <<>>
    ELSE PackH(Len(Head(hdrs)[1])) \o Head(hdrs)[1]
         \o PackH(Len(Head(hdrs)[2])) \o Head(hdrs)[2] \o PackHdrs(Tail(hdrs))

\* _ser_hdrs, the n-th of the session
SerHdrs(n, hdrs) == Compress(n, PackH(Len(hdrs)) \o PackHdrs(SortHdrs(hdrs)))

\* the data of a SYN frame: stream id, two unused bytes, header block
SynPayload(sid, block) == PackI(sid) \o PackH(0) \o block

\* _ser_syn_frame, its header block the n-th of the session
SerSynFrame(type, flags, sid, n, hdrs) ==
    SerCtlFrame(type, flags, SynPayload(sid, SerHdrs(n, hdrs)))

\* header names and values
h_a == <<<<97>>, <<1>>>>
h_b == <<<<98>>, <<>>>>

\* the frames that streams are made of
SpdyFrames ==
    { SerDataFrame(1, FLAG_NONE, <<>>),
      SerDataFrame(1, FLAG_FIN, <<>>),
      SerDataFrame(2, FLAG_FIN, <<7, 8, 9>>),
      SerSynFrame(CTL_SYN_STREAM, FLAG_NONE, 1, 1, <<h_a>>),
      SerSynFrame(CTL_SYN_REPLY, FLAG_FIN, 2, 2, <<>>),
      SerCtlFrame(CTL_SYN_STREAM, FLAG_NONE, <<0, 0>>),
      SerCtlFrame(CTL_NOOP, FLAG_NONE, <<>>),
      SerCtlFrame(CTL_PING, FLAG_NONE, <<0, 0, 0, 1>>),
      SerCtlFrame(CTL_HELLO, FLAG_FIN, <<>>),
      SerCtlFrame(CTL_FIN_STREAM, FLAG_NONE, <<0, 0, 0, 1, 0, 0, 0, 0>>),
      SerCtlFrame(9, FLAG_NONE, <<>>) }

\* the longest read
MaxSpdyFrag == 9

\* the streams: one, two or three frames; three only of the frames that
\* raise nothing
QuietFrames == {f \in SpdyFrames : spdy_handle_input(NewSpdy, f).exc = "none"}

SpdyStreams ==
    SpdyFrames \cup {a \o b : a \in QuietFrames, b \in SpdyFrames}
               \cup {a \o b \o c : a, b, c \in {f \in QuietFrames : Len(f) <= 9}}

InitSpdy ==
    /\ role = "spdy"
    /\ parser = NewSpdy
    /\ harness = [events |-> <<>>, allows |-> TRUE]
    /\ server = NoServer
    /\ client = NoClient
    /\ net = NoNet
    /\ input \in SpdyStreams
    /\ marks = {}
    /\ pos = 0
    /\ calls = 0
    /\ raised = <<>>

\* one read of n bytes handed to _handle_input; an exception that leaves
\* it closes the connection (_TcpConnection.handle_error), so that nothing
\* is read after it
SpdyFeed(n) ==
    /\ role \in {"spdy", "round"}
    /\ raised = <<>>
    /\ pos + n <= Len(input)
    /\ parser' = spdy_handle_input(parser, SubSeq(input, pos + 1, pos + n))
    /\ raised' = IF parser'.exc = "none" THEN raised ELSE Append(raised, parser'.exc)
    /\ pos' = pos + n
    /\ calls' = Bump(calls)
    /\ UNCHANGED <<role, harness, server, client, net, input, marks>>

NextSpdy == \E n \in 1..MaxSpdyFrag : SpdyFeed(n)

SpecSpdy == InitSpdy /\ [][NextSpdy]_vars

\* the parser after the whole stream in one call
SpdyOneShot(m) == spdy_handle_input(NewSpdy, m)

\* C30: the parser is in one of two states; in WAITING it holds fewer than
\* 8 bytes and in READING_FRAME_DATA fewer than the frame's length (a whole
\* header or frame never waits); the callbacks made so far are those of
\* feeding the same bytes in one call; and once the stream has been fed or
\* an exception has ended the feeding, the callbacks and the exception are
\* those of feeding the whole stream in one call
C30_SpdyFragmentation ==
    role = "spdy" =>
        /\ parser.state \in {"WAITING", "READING_FRAME_DATA"}
        /\ parser.exc = "none" =>
              /\ parser.state = "WAITING" => Len(parser.buffer) < FrameHeaderLen
              /\ parser.state = "READING_FRAME_DATA" => Len(parser.buffer) < parser.frame_len
        /\ parser.events = SpdyOneShot(SubSeq(input, 1, pos)).events
        /\ (pos = Len(input) \/ parser.exc # "none") =>
              /\ parser.events = SpdyOneShot(input).events
              /\ parser.exc = SpdyOneShot(input).exc

\* a stream with a data frame of no payload has been fed in more than one
\* read, and _input_start, _input_body and _input_end have been called
C30_Witness ==
    /\ role = "spdy" /\ pos = Len(input) /\ calls = 2
    /\ parser.exc = "none"
    /\ \E i \in 1..Len(parser.events) :
          parser.events[i].k = "body" /\ parser.events[i].data = <<>>
    /\ \E i \in 1..Len(parser.events) : parser.events[i].k = "start"
    /\ \E i \in 1..Len(parser.events) : parser.events[i].k = "end"

(***************************************************************************)
(* What the frames of a stream call for.                                   *)
(***************************************************************************)
\* the frames that a stream of whole frames is made of
RECURSIVE FramesOf(_)
FramesOf(bytes) ==
    IF Len(bytes) < FrameHeaderLen THEN <<>>
    ELSE LET n == bytes[6] * 65536 + bytes[7] * 256 + bytes[8]
             payload == SubSeq(bytes, FrameHeaderLen + 1, FrameHeaderLen + n)
             control == bytes[1] >= 128
         IN  << [type |-> IF control THEN bytes[3] * 256 + bytes[4] ELSE DATA_FRAME,
                 fin |-> bytes[5] % 2 = FLAG_FIN,
                 sid |-> IF control
                         THEN IF n >= 4 THEN UnpackMasked(SubSeq(payload, 1, 4)) ELSE 0
                         ELSE UnpackMasked(SubSeq(bytes, 1, 4)),
                 payload |-> payload] >>
             \o FramesOf(SubSeq(bytes, FrameHeaderLen + n + 1, Len(bytes)))

\* the frame types that C31 speaks of
SynTypes == {CTL_SYN_STREAM, CTL_SYN_REPLY}
SilentTypes == {CTL_HELLO, CTL_NOOP, CTL_PING}

\* a frame that C31 speaks of: a SYN frame has a stream id, two unused bytes
\* and a header block
Spoken(f) ==
    \/ f.type = DATA_FRAME
    \/ f.type \in SynTypes /\ Len(f.payload) > 6
    \/ f.type \in SilentTypes

\* the header blocks of the SYN frames are those of one compressor, in its
\* order, seen of them having gone before, and each holds whole headers
RECURSIVE Decodable(_, _)
Decodable(frames, seen) ==
    IF frames = <<>> THEN TRUE
    ELSE IF Head(frames).type \notin SynTypes THEN Decodable(Tail(frames), seen)
    ELSE LET block == SubSeq(Head(frames).payload, 7, Len(Head(frames).payload))
         IN  /\ Inflates(seen, block)
             /\ Len(Decompress(block)) >= 2
             /\ ParseLoop(Decompress(block), 2, <<>>).exc = "none"
             /\ Decodable(Tail(frames), seen + 1)

\* a stream that C31 speaks of
SpokenStream ==
    /\ \A i \in 1..Len(FramesOf(input)) : Spoken(FramesOf(input)[i])
    /\ Decodable(FramesOf(input), 0)

\* the calls of _input_body, _input_start and _input_end that C31 has for a
\* list of frames, by the kind, the stream and (for a body) the payload
RECURSIVE FinCalls(_)
FinCalls(frames) ==
    IF frames = <<>> THEN <<>>
    ELSE LET f == Head(frames)
             first == CASE f.type = DATA_FRAME -> <<SpdyEv("body", f.sid, f.payload)>>
                        [] f.type \in SynTypes -> <<SpdyEv("start", f.sid, <<>>)>>
                        [] OTHER -> <<>>
             last == IF f.fin /\ f.type \notin SilentTypes
                     THEN <<SpdyEv("end", f.sid, <<>>)>> ELSE <<>>
         IN  first \o last \o FinCalls(Tail(frames))

\* the calls made, without those of _input_error and without the headers
\* handed to _input_start
RECURSIVE CallsMade(_)
CallsMade(events) ==
    IF events = <<>> THEN <<>>
    ELSE (CASE Head(events).k = "error" -> <<>>
            [] Head(events).k = "start" -> <<SpdyEv("start", Head(events).sid, <<>>)>>
            [] OTHER -> <<Head(events)>>)
         \o CallsMade(Tail(events))

\* C31: a stream of DATA, SYN_STREAM, SYN_REPLY, HELLO, NOOP and PING frames
\* whose header blocks can be read raises nothing, and once it has been fed the calls made are, frame by
\* frame: the body or start call of the frame, then, if and only if the
\* frame has FLAG_FIN and is a DATA or SYN frame, one stream-end call for
\* the frame's stream; HELLO, NOOP and PING call nothing
C31_FinEndsStream ==
    (role = "spdy" /\ SpokenStream) =>
        /\ parser.exc = "none"
        /\ pos = Len(input) => CallsMade(parser.events) = FinCalls(FramesOf(input))

\* the same for streams in which no HELLO, NOOP or PING frame has FLAG_FIN
C31_FinWithoutSilent ==
    (/\ role = "spdy" /\ SpokenStream
     /\ \A i \in 1..Len(FramesOf(input)) :
           FramesOf(input)[i].type \in SilentTypes => ~FramesOf(input)[i].fin) =>
        /\ parser.exc = "none"
        /\ pos = Len(input) => CallsMade(parser.events) = FinCalls(FramesOf(input))

\* a stream with a SYN frame that has no FLAG_FIN and a DATA frame or a
\* later SYN frame that has it has been fed
C31_FinFed ==
    /\ role = "spdy" /\ pos = Len(input) /\ parser.exc = "none"
    /\ \E i, j \in 1..Len(FramesOf(input)) :
          \/ /\ FramesOf(input)[i].type = DATA_FRAME /\ FramesOf(input)[i].fin
             /\ FramesOf(input)[j].type \in SynTypes /\ ~FramesOf(input)[j].fin
          \/ /\ i < j
             /\ FramesOf(input)[i].type \in SynTypes /\ ~FramesOf(input)[i].fin
             /\ FramesOf(input)[j].type \in SynTypes /\ FramesOf(input)[j].fin

\* a HELLO frame that has FLAG_FIN has been fed and an UnboundLocalError
\* has left _handle_input
C31_HelloFinRaises ==
    /\ role = "spdy" /\ pos = Len(input)
    /\ Len(FramesOf(input)) = 1
    /\ FramesOf(input)[1].type = CTL_HELLO /\ FramesOf(input)[1].fin
    /\ parser.exc = "UnboundLocalError"

(***************************************************************************)
(* FIN_STREAM.                                                             *)
(***************************************************************************)
\* the last frame of the stream
LastFrame == FramesOf(input)[Len(FramesOf(input))]

\* the stream has been fed and its last frame is a FIN_STREAM frame
FinStreamFed ==
    /\ role = "spdy" /\ pos = Len(input)
    /\ FramesOf(input) # <<>>
    /\ LastFrame.type = CTL_FIN_STREAM

\* C32: once a FIN_STREAM frame has been fed, the last call made is the
\* error callback for the stream that the frame names, nothing has been
\* raised, and the parser is in WAITING with an empty buffer
C32_FinStreamReported ==
    FinStreamFed =>
        /\ parser.exc = "none"
        /\ parser.state = "WAITING" /\ parser.buffer = <<>>
        /\ parser.events # <<>>
        /\ parser.events[Len(parser.events)].k = "error"
        /\ parser.events[Len(parser.events)].sid = LastFrame.sid

\* what comes of it instead: an UnboundLocalError, no error callback, and
\* the parser left in READING_FRAME_DATA
C32_FinStreamRaises ==
    /\ FinStreamFed
    /\ parser.exc = "UnboundLocalError"
    /\ parser.state = "READING_FRAME_DATA"
    /\ \A i \in 1..Len(parser.events) : parser.events[i].k # "error"

(***************************************************************************)
(* Frames serialised and parsed again.                                     *)
(***************************************************************************)
\* the stream ids, flags, payloads and header lists that are serialised
RoundSids == {1, 255, 65536, 2147483647}
RoundFlags == {0, 1, 2, 255}
RoundPayloads == {<<>>, <<7>>, <<7, 8, 9>>}
RoundHdrs == {<<>>, <<h_a>>, <<h_a, h_b>>, <<h_b, h_a>>, <<h_a, h_a>>}

\* what is serialised: a data frame or a SYN frame
RoundFrames ==
    [kind : {DATA_FRAME}, sid : RoundSids, flags : RoundFlags,
     payload : RoundPayloads, hdrs : {<<>>}]
    \cup [kind : SynTypes, sid : RoundSids, flags : RoundFlags,
          payload : {<<>>}, hdrs : RoundHdrs]

\* the output of _ser_data_frame or of _ser_syn_frame on a new handler
Serialised(f) ==
    IF f.kind = DATA_FRAME THEN SerDataFrame(f.sid, f.flags, f.payload)
    ELSE SerSynFrame(f.kind, f.flags, f.sid, 1, f.hdrs)

\* a frame is serialised by one handler and fed to a new one
InitRound ==
    /\ role = "round"
    /\ parser = NewSpdy
    /\ harness \in RoundFrames
    /\ server = NoServer
    /\ client = NoClient
    /\ net = NoNet
    /\ input = Serialised(harness)
    /\ marks = {}
    /\ pos = 0
    /\ calls = 0
    /\ raised = <<>>

SpecRound == InitRound /\ [][NextSpdy]_vars

\* the calls for a frame that came back as it went: hdrs is the header list
\* that _input_start is to have
RoundCalls(f, hdrs) ==
    (IF f.kind = DATA_FRAME THEN <<SpdyEv("body", f.sid, f.payload)>>
     ELSE <<SpdyEv("start", f.sid, HdrList(hdrs))>>)
    \o (IF f.flags % 2 = FLAG_FIN THEN <<SpdyEv("end", f.sid, <<>>)>> ELSE <<>>)

\* C33: once the serialised frame has been fed, nothing has been raised and
\* the calls made are: for a data frame the body callback with the stream
\* id and the payload that were serialised, for a SYN frame the start
\* callback with the stream id and the header list that were serialised, and
\* after it stream-end if and only if the flags have FLAG_FIN
C33_RoundTrip ==
    (role = "round" /\ pos = Len(input)) =>
        /\ parser.exc = "none"
        /\ parser.events = RoundCalls(harness, harness.hdrs)

\* the same for frames other than SYN frames with an empty header list, the
\* header list taken in sorted order
C33_RoundTripSorted ==
    (role = "round" /\ pos = Len(input)
       /\ (harness.kind \in SynTypes => harness.hdrs # <<>>)) =>
        /\ parser.exc = "none"
        /\ parser.events = RoundCalls(harness, SortHdrs(harness.hdrs))

\* a SYN frame with an empty header list has come back as a call of the
\* error callback and a start callback without a header list
C33_EmptyListReported ==
    /\ role = "round" /\ pos = Len(input)
    /\ harness.kind = CTL_SYN_STREAM /\ harness.hdrs = <<>> /\ harness.flags = 0
    /\ parser.events = <<SpdyEv("error", harness.sid, <<>>),
                         SpdyEv("start", harness.sid, ErrorReturn)>>

\* a data frame with the largest stream id and FLAG_FIN has come back
C33_DataBack ==
    /\ role = "round" /\ pos = Len(input) /\ calls = 2
    /\ harness.kind = DATA_FRAME /\ harness.sid = 2147483647
    /\ harness.flags = 255 /\ harness.payload = <<7, 8, 9>>
    /\ parser.events = RoundCalls(harness, <<>>)

(***************************************************************************)
(* The decompressor of a session.                                          *)
(***************************************************************************)
\* how many whole SYN frames with a stream id there are in bytes
RECURSIVE SynFramesIn(_)
SynFramesIn(bytes) ==
    IF Len(bytes) < FrameHeaderLen THEN 0
    ELSE LET n == bytes[6] * 65536 + bytes[7] * 256 + bytes[8]
         IN  IF Len(bytes) < FrameHeaderLen + n THEN 0
             ELSE (IF bytes[1] >= 128 /\ bytes[3] * 256 + bytes[4] \in SynTypes /\ n >= 4
                   THEN 1 ELSE 0)
                  + SynFramesIn(SubSeq(bytes, FrameHeaderLen + n + 1, Len(bytes)))

\* how many times _input_start has been called
Starts == Cardinality({i \in 1..Len(parser.events) : parser.events[i].k = "start"})

ResCalls == {"res_start", "res_body", "res_done"}

\* the call is outside the order res_start, res_body*, res_done for a
\* handler that has got as far as app
OutOfOrder(app, call) ==
    \/ app = "started" /\ call \in {"res_body", "res_done"}
    \/ app \in {"res_start", "res_body"} /\ call = "res_start"
    \/ app = "done"

\* the method called with what the handler has to give
ResCall(w, id, call) ==
    CASE call = "res_start" -> res_start(w, id, s_200, s_OK, w.s.app.hdrs)
      [] call = "res_body" -> res_body(w, id, w.s.app.body)
      [] OTHER -> res_done(w, id, "")

\* the handler of request id makes a call outside the order, once
AppMisuse(id, call) ==
    /\ role = "server"
    /\ id \in 1..Len(server.reqs)
    /\ server.reqs[id].tcp
    /\ OutOfOrder(server.reqs[id].app, call)
    /\ SetWorld([ResCall(W, id, call) EXCEPT !.s.reqs[id].app = "misused"])
    /\ UNCHANGED <<role, input, marks, pos, calls>>

NextOrder ==
    \/ NextServer
    \/ \E id \in 1..Len(server.reqs), call \in ResCalls : AppMisuse(id, call)

SpecOrder == InitRes /\ [][NextOrder]_vars

\* a call outside the order has failed an assertion, written nothing and
\* left the queue as it was
Refused ==
    /\ raised' = Append(raised, "AssertionError")
    /\ server'.writes = server.writes
    /\ server'.tcp = server.tcp
    /\ server'.queue = server.queue

C35_EnforcedBeforeDone ==
    [][\A id \in 1..Len(server.reqs), call \in ResCalls :
          (AppMisuse(id, call) /\ server.reqs[id].app # "done") => Refused]_vars

\* res_done has been called a second time for the first request while the
\* second was at the head of the queue: the terminator has been written
\* again and the second request has left the queue
C35_SecondDonePops ==
    /\ role = "server" /\ Len(server.reqs) = 2
    /\ server.reqs[1].app = "misused"
    /\ Cardinality(LogAt("res_done", 1)) = 2
    /\ server.reqs[2].app = "started"
    /\ server.queue = <<>>
    /\ Cardinality({i \in 1..Len(server.writes) :
                       server.writes[i] = [req |-> 1, data |-> s_last_chunk]}) = 2

\* res_body has been called before res_start and has failed its assertion
C35_BodyBeforeStart ==
    /\ role = "server" /\ Len(server.reqs) >= 1
    /\ server.reqs[1].app = "misused"
    /\ LogAt("res_start", 1) = {} /\ LogAt("res_body", 1) # {}
    /\ raised = <<"AssertionError">>
    /\ server.writes = <<>>

(***************************************************************************)
(* The byte counter of a COUNTED body: one header block whose only length  *)
(* header is a Content-Length that int() accepts, followed by body bytes,  *)
(* fed in every fragmentation.  harness.cl keeps the header's value.       *)
(***************************************************************************)
ClValues == {<<"0">>, <<"2">>, <<"+","1">>, <<SP,"3">>, <<"-","1">>, <<"-","0">>}
CountBodies == {<<>>, <<"a">>, <<"a","b">>, <<"a","b","c">>}

CountBlock(cl) ==
    <<"P","U","T",SP,"/",SP,"H","T","T","P","/","1",".","1",CR,LF>>
    \o n_content_length \o <<":", SP>> \o cl \o <<CR, LF, CR, LF>>

InitCount ==
    /\ role = "rec"
    /\ parser = NewParser
    /\ server = NoServer
    /\ client = NoClient
    /\ net = NoNet
    /\ \E cl \in ClValues, body \in CountBodies :
          /\ harness = [events |-> <<>>, allows |-> TRUE, cl |-> cl]
          /\ input = CountBlock(cl) \o body
    /\ marks = {}
    /\ pos = 0
    /\ calls = 0
    /\ raised = <<>>

SpecCount == InitCount /\ [][NextParser]_vars

\* the parser counts the bytes of a body and the assertion on the counter
\* has not failed
CountingSafely ==
    /\ parser.delimit = "COUNTED" => parser.left >= 0
    /\ \A i \in 1..Len(raised) : raised[i] # "AssertionError"

\* C36: in COUNTED mode _input_body_left is never negative and the
\* assertion on it holds, for every Content-Length that parses as an
\* integer and every fragmentation of the input
C36_LeftNeverNegative == role = "rec" => CountingSafely

\* C36 for the Content-Length values that are not negative: there the
\* counter stays at or above zero
C36_LeftNeverNegativeUnsigned ==
    (role = "rec" /\ "cl" \in DOMAIN harness /\ int(harness.cl, 10).val >= 0)
        => CountingSafely

\* a negative Content-Length has made the assertion fail
C36_NegativeLengthRaises ==
    /\ role = "rec"
    /\ "cl" \in DOMAIN harness
    /\ harness.cl = <<"-","1">>
    /\ raised # <<>>
    /\ raised[Len(raised)] = "AssertionError"

\* a body of two bytes has been counted down in two reads
C36_CountedDown ==
    /\ role = "rec"
    /\ "cl" \in DOMAIN harness
    /\ harness.cl = <<"2">>
    /\ parser.state = "HEADERS_DONE"
    /\ parser.delimit = "COUNTED"
    /\ parser.left = 1

(***************************************************************************)
(* client.py: the request body.  One client, one request with or without  *)
(* a Content-Length header, the chunks of its body passed to req_body      *)
(* before and after the connection is established.  The client is kept in  *)
(* net: the fields of Client that req_start, req_body, req_done and        *)
(* _handle_connect use, its connection, and in given the non-empty chunks  *)
(* that were passed to req_body.                                           *)
(***************************************************************************)
MaxChunks == 3
BodyChunks == {<<>>, <<"a">>, <<"b","c">>}
BodyLengths == {NoLength, Length(3), Length(4)}

\* how many arguments req_body hands to _handle_error
req_body_error_args == 1

\* Client.__init__ with the fields of the request body
NewBodyClient ==
    [on |-> TRUE, req_state |-> "WAITING", req_content_length |-> NoLength,
     req_buffer |-> <<>>, req_body_sent |-> 0, tcp_conn |-> FALSE,
     dialling |-> FALSE, asked |-> FALSE, conn |-> NewConn, given |-> <<>>,
     exc |-> "none"]

\* the header block _handle_connect writes for a POST with the headers
\* req_start leaves
BodyRequestBlock(b) ==
    join(linesep,
         <<m_POST \o <<SP, "/", SP>> \o Upto(s_http11, 8)>>
         \o (IF b.req_content_length.set
             THEN <<n_content_length \o <<":", SP, Digits[b.req_content_length.val + 1]>> >>
             ELSE <<>>)
         \o << <<"H","o","s","t",":",SP,"x">>, s_conn_keep_alive, <<>>, <<>> >>)

\* "".join(self._req_buffer)
Joined(chunks) == join(<<>>, chunks)

\* what _handle_connect does with the buffered body: written and dropped
FlushBuffer(b) ==
    IF b.req_buffer # <<>>
    THEN [b EXCEPT !.conn = tcp_write(@, Joined(b.req_buffer)), !.req_buffer = <<>>]
    ELSE b

\* Client._handle_connect for the request body
body_handle_connect(b) ==
    FlushBuffer([b EXCEPT !.tcp_conn = TRUE, !.dialling = FALSE,
                          !.conn = tcp_write(@, BodyRequestBlock(b))])

\* Client.req_start for a http URI; idle says whether the pool has an idle
\* connection to hand out at once
body_req_start(b, length, idle) ==
    IF b.req_state # "WAITING" THEN [b EXCEPT !.exc = "AssertionError"]
    ELSE IF idle
    THEN body_handle_connect([b EXCEPT !.req_content_length = length, !.asked = TRUE,
                                       !.req_state = "HEADERS_DONE"])
    ELSE [b EXCEPT !.req_content_length = length, !.req_state = "HEADERS_DONE",
                   !.asked = TRUE, !.dialling = TRUE]

\* the write of req_body once the chunk is in the buffer
WriteBuffer(b) ==
    IF b.tcp_conn /\ b.conn.connected
    THEN [b EXCEPT !.conn = tcp_write(@, Joined(b.req_buffer))]
    ELSE b

\* the end of req_body: the count and the assertion on it
CountSent(b, data) ==
    IF b.req_body_sent + Len(data) > b.req_content_length.val
    THEN [b EXCEPT !.req_body_sent = @ + Len(data), !.exc = "AssertionError"]
    ELSE [b EXCEPT !.req_body_sent = @ + Len(data)]

\* Client.req_body
cli_req_body(b, data) ==
    IF b.req_state # "HEADERS_DONE" THEN [b EXCEPT !.exc = "AssertionError"]
    ELSE IF data = <<>> THEN b
    ELSE IF ~b.req_content_length.set
    THEN IF req_body_error_args # handle_error_params
         THEN [b EXCEPT !.exc = "TypeError"]
         ELSE [b EXCEPT !.req_state = "WAITING"]
    ELSE CountSent(WriteBuffer([b EXCEPT !.req_buffer = Append(@, data)]), data)

\* Client.req_done
body_req_done(b) ==
    IF b.req_state # "HEADERS_DONE" THEN [b EXCEPT !.exc = "AssertionError"]
    ELSE [b EXCEPT !.req_state = "WAITING"]

InitBody ==
    /\ role = "body"
    /\ parser = NewParser
    /\ harness = [events |-> <<>>, allows |-> TRUE]
    /\ server = NoServer
    /\ client = NoClient
    /\ net = NewBodyClient
    /\ input = <<>>
    /\ marks = {}
    /\ pos = 0
    /\ calls = 0
    /\ raised = <<>>

\* the client after a call, and the exception the call has raised
SetBody(b) ==
    /\ net' = [b EXCEPT !.exc = "none"]
    /\ raised' = IF b.exc = "none" THEN raised ELSE Append(raised, b.exc)
    /\ UNCHANGED <<role, parser, harness, server, client, input, marks, pos>>

BodyReqStart(length, idle) ==
    /\ role = "body"
    /\ ~net.asked
    /\ SetBody(body_req_start(net, length, idle))
    /\ UNCHANGED calls

BodyConnected ==
    /\ role = "body"
    /\ net.dialling
    /\ SetBody(body_handle_connect(net))
    /\ UNCHANGED calls

\* the application passes a chunk to req_body; calls counts these calls
BodyReqBody(data) ==
    /\ role = "body"
    /\ net.asked
    /\ calls < MaxChunks
    /\ SetBody([cli_req_body(net, data) EXCEPT
                   !.given = IF data = <<>> THEN @ ELSE Append(@, data)])
    /\ calls' = calls + 1

BodyReqDone ==
    /\ role = "body"
    /\ net.asked
    /\ net.req_state = "HEADERS_DONE"
    /\ SetBody(body_req_done(net))
    /\ UNCHANGED calls

NextBody ==
    \/ \E length \in BodyLengths, idle \in BOOLEAN : BodyReqStart(length, idle)
    \/ BodyConnected
    \/ \E data \in BodyChunks : BodyReqBody(data)
    \/ BodyReqDone

SpecBody == InitBody /\ [][NextBody]_vars

\* the body bytes written to the connection: all that follows the header
\* block
BodyWritten == IF net.conn.wbuf = <<>> THEN <<>> ELSE Joined(Tail(net.conn.wbuf))

\* the request has a Content-Length, is on its connection, and no call of
\* the client has raised
BodySent == role = "body" /\ net.req_content_length.set /\ net.tcp_conn /\ raised = <<>>

\* C37: the request-body bytes written to the connection are exactly the
\* concatenation of the non-empty chunks passed to req_body, in call order
\* and each byte once, whether a chunk was passed before or after the
\* connection was established
C37_BodyWrittenOnce == BodySent => BodyWritten = Joined(net.given)

\* C37 while at most one chunk has been passed since the connection was
\* established (_req_buffer then holds at most that chunk)
C37_BodyWrittenOnceFirstChunk ==
    (BodySent /\ Len(net.req_buffer) <= 1) => BodyWritten = Joined(net.given)

\* nothing is written before the connection is established
C37_NothingBeforeConnect ==
    (role = "body" /\ ~net.tcp_conn) => net.conn.wbuf = <<>>

\* two chunks passed after the connection was established: the first has
\* been written twice
C37_FirstChunkTwice ==
    /\ BodySent
    /\ net.given = << <<"a">>, <<"b","c">> >>
    /\ BodyWritten = <<"a","a","b","c">>

\* a chunk buffered before the connection was established has been flushed
\* after the header block, and a later one written after it
C37_BufferedThenWritten ==
    /\ BodySent
    /\ net.given = << <<"a">>, <<"b","c">> >>
    /\ BodyWritten = <<"a","b","c">>

(***************************************************************************)
(* The idle pool and the connections handed out of it.                     *)
(***************************************************************************)
\* how often connection c is in the buckets of the pool
TimesPooled(c) ==
    LET n(h) == Cardinality({i \in 1..Len(client.pool[h]) : client.pool[h][i] = c})
    IN  n("x") + n("y")

\* connection c was handed to a client by _handle_connect and has neither
\* been released since (release puts idle_close in place of the client's
\* close_cb) nor been closed
HandedOut(c) ==
    /\ client.conns[c].close_cb = "client"
    /\ client.conns[c].connected
    /\ ~client.conns[c].closing

\* the clients whose _tcp_conn is connection c
HoldersOf(c) == {k \in 1..Len(client.cl) : client.cl[k].tcp = c}

\* C38: the idle pool holds each connection at most once, and a connection
\* handed out by attach is in no bucket and is the connection of exactly
\* one client until that client releases it
C38_PoolExclusive ==
    role = "client" =>
        \A c \in 1..Len(client.conns) :
            /\ TimesPooled(c) <= 1
            /\ HandedOut(c) => /\ TimesPooled(c) = 0
                               /\ Cardinality(HoldersOf(c)) = 1
                               /\ client.conns[c].read_cb \in HoldersOf(c)

\* C38 without the count of the clients that hold the connection: the pool
\* holds each connection at most once, and a connection handed out is in no
\* bucket and delivers its input to a client that holds it
C38_PoolOnceAndApart ==
    role = "client" =>
        \A c \in 1..Len(client.conns) :
            /\ TimesPooled(c) <= 1
            /\ HandedOut(c) => /\ TimesPooled(c) = 0
                               /\ client.conns[c].read_cb \in HoldersOf(c)

\* a connection that was released twice has been handed out and is still
\* in its bucket
C38_HandedOutAndPooled ==
    /\ role = "client"
    /\ \E c \in 1..Len(client.conns) : HandedOut(c) /\ TimesPooled(c) >= 1

\* a connection has been released twice: it is in its bucket twice
C38_PooledTwice ==
    /\ role = "client"
    /\ \E c \in 1..Len(client.conns) : TimesPooled(c) = 2

\* a connection released by one client has been handed to the other, and
\* both have it as their _tcp_conn
C38_TwoHolders ==
    /\ role = "client"
    /\ \E c \in 1..Len(client.conns) : HandedOut(c) /\ Cardinality(HoldersOf(c)) = 2

(***************************************************************************)
(* push_tcp.py, server.py, client.py: the pause closures after close().    *)
(* The connections of SpecTcp, with handlers that close their connection   *)
(* and call the pause closure they hold (req_body_pause of the server      *)
(* connection, res_body_pause of the client) instead of pause itself.      *)
(***************************************************************************)
\* HttpServerConnection.req_body_pause and Client.res_body_pause on the
\* connection t they hold
body_pause(t, paused) == IF t.connected THEN pause(t, paused) ELSE t

\* a handler calls the pause closure of connection c
HandlerPause(c, paused) ==
    /\ role = "tcp"
    /\ net.rready = {} /\ net.wready = {}
    /\ net.conns[c].read_cb # 0
    /\ net' = [net EXCEPT !.conns[c] = body_pause(@, paused)]
    /\ UNCHANGED <<role, parser, harness, server, client, input, marks, pos, calls, raised>>

\* a handler calls close() on its connection c
HandlerClose(c) ==
    /\ role = "tcp"
    /\ net.rready = {} /\ net.wready = {}
    /\ net.conns[c].open /\ ~net.conns[c].closing
    /\ net' = [net EXCEPT !.conns[c] = tcp_close(@)]
    /\ UNCHANGED <<role, parser, harness, server, client, input, marks, pos, calls, raised>>

NextClosed ==
    \/ Poll
    \/ \E c \in 1..2, does \in Does : TcpRead(c, does)
    \/ \E c \in 1..2, fails \in BOOLEAN : TcpWrite(c, fails)
    \/ \E c \in 1..2 : TcpEvent(c)
    \/ \E c \in 1..2, paused \in BOOLEAN : HandlerPause(c, paused)
    \/ \E c \in 1..2 : HandlerClose(c)
    \/ \E c \in 1..2 : SetCloseCb(c)
    \/ \E c \in 1..2 : PeerSend(c)
    \/ \E c \in 1..2 : PeerClose(c)
    \/ DialConnect
    \/ DialTimeout

SpecClosed == InitTcp /\ [][NextClosed]_vars

\* close() has been called on connection c: it is draining its write
\* buffer, or its socket is closed
CloseCalled(c) == net.conns[c].closing \/ ~net.conns[c].open

\* connection c is left as close() wants it in this step: it stays paused
\* and no read_cb is called on it
StaysSilent(c) ==
    /\ net'.conns[c].paused
    /\ net'.seen[c].reads = net.seen[c].reads

\* C39: after close() has been called on a connection, also while it is
\* draining its write buffer, the pause closures are no-ops and no further
\* read_cb is delivered on it
C39_SilentAfterClose ==
    [][role = "tcp" => \A c \in 1..2 : CloseCalled(c) => StaysSilent(c)]_vars

\* C39 for a connection whose socket close() has closed (nothing was left
\* to drain, or it has been drained)
C39_SilentAfterSocketClosed ==
    [][role = "tcp" => \A c \in 1..2 : ~net.conns[c].open => StaysSilent(c)]_vars

\* a draining connection has been unpaused through the pause closure
C39_DrainingUnpaused ==
    /\ role = "tcp"
    /\ \E c \in 1..2 : /\ net.conns[c].closing /\ net.conns[c].open
                       /\ ~net.conns[c].paused

\* a draining connection that was unpaused has been found readable by the
\* loop
C39_DrainingReadable ==
    /\ role = "tcp"
    /\ \E c \in 1..2 : /\ net.conns[c].closing /\ net.conns[c].open
                       /\ ~net.conns[c].paused
                       /\ c \in net.rready

(***************************************************************************)
(* client.py: a client and the connection it has released.  The clients    *)
(* of SpecClient, whose applications also call res_body_pause, the         *)
(* callback that _input_start hands to res_start_cb.                       *)
(***************************************************************************)
\* Client.res_body_pause
cli_res_body_pause(w, k, paused) ==
    IF w.c.cl[k].tcp # 0 /\ w.c.conns[w.c.cl[k].tcp].connected
    THEN [w EXCEPT !.c.conns[w.c.cl[k].tcp] = pause(@, paused)]
    ELSE w

\* the application of client k calls the res_body_pause it was given
CliResBodyPause(k, paused) ==
    /\ role = "client"
    /\ k \in 1..Len(client.cl)
    /\ client.cl[k].cbs
    /\ SetClientWorld(cli_res_body_pause(CW(k), k, paused), k)
    /\ UNCHANGED <<role, input, marks, pos, calls>>

NextReleased ==
    \/ NextClient
    \/ \E k \in 1..2, paused \in BOOLEAN : CliResBodyPause(k, paused)

SpecReleased == InitClient /\ [][NextReleased]_vars

\* client k has released the connection that is its _tcp_conn: the
\* connection is idle in the pool, or has been handed to another client
Released(k) ==
    /\ client.cl[k].tcp # 0
    /\ \/ client.conns[client.cl[k].tcp].close_cb = "idle"
       \/ client.conns[client.cl[k].tcp].read_cb # k

\* the step is one of client k: a call of its res_body_pause, or input
\* handed to its parser
StepOf(k) ==
    \/ \E paused \in BOOLEAN : CliResBodyPause(k, paused)
    \/ /\ Len(client.conns) >= 1
       /\ client.conns[1].read_cb = k
       /\ \E m \in marks, fate \in Fates : CliRecv(m, fate)

\* the step leaves connection c as it is: its paused flag, its callbacks,
\* and the pool
Untouched(c) ==
    /\ client'.conns[c].paused = client.conns[c].paused
    /\ client'.conns[c].read_cb = client.conns[c].read_cb
    /\ client'.conns[c].close_cb = client.conns[c].close_cb
    /\ client'.conns[c].pause_cb = client.conns[c].pause_cb
    /\ client'.pool = client.pool

\* C40: once a client has released its connection to the idle pool, its
\* res_body_pause and the events of its parser leave the connection's
\* paused flag, its callbacks and the pool as they are, also after the
\* connection has been attached to another client
C40_ReleasedClientInert ==
    [][role = "client" =>
          \A k \in 1..2 : (Released(k) /\ StepOf(k)) => Untouched(client.cl[k].tcp)]_vars

\* a client that still has its connection changes the paused flag only:
\* the callbacks and the pool stay as they are in a call of res_body_pause
C40_PauseLeavesCallbacksAndPool ==
    [][role = "client" =>
          \A k \in 1..2 :
              (client.cl[k].tcp # 0 /\ \E paused \in BOOLEAN : CliResBodyPause(k, paused))
                  => /\ client'.conns[client.cl[k].tcp].read_cb
                            = client.conns[client.cl[k].tcp].read_cb
                     /\ client'.conns[client.cl[k].tcp].close_cb
                            = client.conns[client.cl[k].tcp].close_cb
                     /\ client'.pool = client.pool]_vars

\* the connection one client released is the other's now, the other has
\* not had its res_body_pause yet, and the call of the first client's
\* res_body_pause has paused it
C40_PausedByFormerHolder ==
    /\ role = "client"
    /\ \E k \in 1..2 :
          /\ Released(k)
          /\ client.conns[client.cl[k].tcp].read_cb # k
          /\ ~client.cl[client.conns[client.cl[k].tcp].read_cb].cbs
          /\ client.conns[client.cl[k].tcp].close_cb = "client"
          /\ client.conns[client.cl[k].tcp].connected
          /\ ~client.conns[client.cl[k].tcp].closing
          /\ client.conns[client.cl[k].tcp].paused

====
